---- MODULE Spec2Model ----
(***************************************************************************)
(* The HTTP/1.x message codec of rust-server: the request parser           *)
(* (request.rs), the typed header model (common.rs), the Accept-Encoding   *)
(* negotiator (accept.rs), the response serializer (response.rs) and the   *)
(* accept loop that drives them (server.rs, main.rs).                      *)
(*                                                                         *)
(* Text and bytes are sequences of one-character strings.  A byte that is  *)
(* not ASCII is written as a token such as "0xFF", a character that is not *)
(* ASCII as a token such as "U+00E9".                                      *)
(***************************************************************************)
EXTENDS Integers, Sequences, FiniteSets, TLC

(***************************************************************************)
(* Characters and strings                                                  *)
(***************************************************************************)

\* The printable ASCII characters in code order, from 32 (space) to 126.
\* The grave accent (96) is written "0x60".
Printable ==
    <<" ","!","\"","#","$","%","&","'","(",")","*","+",",","-",".","/","0","1","2","3","4","5","6","7","8","9",":",";","<","=",">","?","@","A","B","C","D","E","F","G","H","I","J","K","L","M","N","O","P","Q","R","S","T","U","V","W","X","Y","Z","[","\\","]","^","_">>
        \o <<"0x60">> \o <<"a","b","c","d","e","f","g","h","i","j","k","l","m","n","o","p","q","r","s","t","u","v","w","x","y","z","{","|","}","~">>

\* The code of each printable ASCII character.
AsciiCode == [c \in {Printable[i] : i \in 1..Len(Printable)} |->
                 31 + (CHOOSE i \in 1..Len(Printable) : Printable[i] = c)]

\* The bytes of a character's UTF-8 encoding, as numbers.
Utf8Bytes(c) ==
    IF c \in DOMAIN AsciiCode THEN <<AsciiCode[c]>>
    ELSE IF c = "\t" THEN <<9>>
    ELSE IF c = "\n" THEN <<10>>
    ELSE IF c = "\r" THEN <<13>>
    ELSE IF c = "U+00E9" THEN <<195, 169>>
    ELSE IF c = "U+00FF" THEN <<195, 191>>
    ELSE IF c = "U+0100" THEN <<196, 128>>
    ELSE IF c = "U+FFFD" THEN <<239, 191, 189>>
    ELSE <<>>

UpperLetters == <<"A","B","C","D","E","F","G","H","I","J","K","L","M","N","O","P","Q","R","S","T","U","V","W","X","Y","Z">>
LowerLetters == <<"a","b","c","d","e","f","g","h","i","j","k","l","m","n","o","p","q","r","s","t","u","v","w","x","y","z">>
Digits == <<"0","1","2","3","4","5","6","7","8","9">>

LowerOf == [c \in {UpperLetters[i] : i \in 1..26} |->
               LowerLetters[CHOOSE i \in 1..26 : UpperLetters[i] = c]]
UpperOf == [c \in {LowerLetters[i] : i \in 1..26} |->
               UpperLetters[CHOOSE i \in 1..26 : LowerLetters[i] = c]]
DigitOf == [c \in {Digits[i] : i \in 1..10} |-> (CHOOSE i \in 1..10 : Digits[i] = c) - 1]

IsUpper(c) == c \in DOMAIN LowerOf
IsLower(c) == c \in DOMAIN UpperOf
IsDigit(c) == c \in DOMAIN DigitOf

\* char::to_lowercase / to_uppercase on the characters of the model.
LowerChar(c) == IF IsUpper(c) THEN LowerOf[c] ELSE c
UpperChar(c) == IF IsLower(c) THEN UpperOf[c] ELSE c

to_lowercase(s) == [i \in 1..Len(s) |-> LowerChar(s[i])]
to_uppercase(s) == [i \in 1..Len(s) |-> UpperChar(s[i])]

RECURSIVE Utf8(_)
\* The UTF-8 bytes of a string: the order of String::cmp, the count of len().
Utf8(s) == IF s = <<>> THEN <<>> ELSE Utf8Bytes(Head(s)) \o Utf8(Tail(s))

RECURSIVE SeqLess(_, _)
SeqLess(a, b) ==
    IF b = <<>> THEN FALSE
    ELSE IF a = <<>> THEN TRUE
    ELSE IF Head(a) # Head(b) THEN Head(a) < Head(b)
    ELSE SeqLess(Tail(a), Tail(b))

\* a.cmp(&b) == Ordering::Less for two Strings: byte-wise on the UTF-8 text,
\* so case-sensitive.  The first character that differs decides; without one
\* the shorter string is the smaller.
StrLess(a, b) ==
    LET common == IF Len(a) < Len(b) THEN Len(a) ELSE Len(b)
        differ == {i \in 1..common : a[i] # b[i]}
        first == CHOOSE i \in differ : \A j \in differ : i <= j
    IN  IF differ = {} THEN Len(a) < Len(b)
        ELSE SeqLess(Utf8Bytes(a[first]), Utf8Bytes(b[first]))
StrLeq(a, b) == ~StrLess(b, a)

Min(S) == CHOOSE x \in S : \A y \in S : x <= y

\* The first position at or after `from` where pat occurs in s, or 0.
FindFrom(s, pat, from) ==
    LET hits == {j \in from..(Len(s) - Len(pat) + 1) :
                    \A k \in 1..Len(pat) : s[j + k - 1] = pat[k]}
    IN  IF hits = {} THEN 0 ELSE Min(hits)

Find(s, pat) == FindFrom(s, pat, 1)
Contains(s, pat) == Find(s, pat) # 0
StartsWith(s, pat) == Len(pat) <= Len(s) /\ SubSeq(s, 1, Len(pat)) = pat

RECURSIVE Split(_, _)
\* str::split(pat) collected: the pieces between the non-overlapping
\* occurrences of pat, found left to right; always at least one piece.
Split(s, pat) ==
    LET j == Find(s, pat)
    IN  IF j = 0 THEN <<s>>
        ELSE <<SubSeq(s, 1, j - 1)>> \o Split(SubSeq(s, j + Len(pat), Len(s)), pat)

RECURSIVE Join(_, _)
\* [T]::join(sep) on a list of strings.
Join(parts, sep) ==
    IF parts = <<>> THEN <<>>
    ELSE IF Len(parts) = 1 THEN parts[1]
    ELSE parts[1] \o sep \o Join(Tail(parts), sep)

IsWhite(c) == c \in {" ", "\t", "\n", "\r"}

RECURSIVE TrimStart(_)
TrimStart(s) == IF s # <<>> /\ IsWhite(Head(s)) THEN TrimStart(Tail(s)) ELSE s
RECURSIVE TrimEnd(_)
TrimEnd(s) == IF s # <<>> /\ IsWhite(s[Len(s)]) THEN TrimEnd(SubSeq(s, 1, Len(s) - 1)) ELSE s
\* str::trim
Trim(s) == TrimEnd(TrimStart(s))

DigitVal(c) == DigitOf[c]
DigitChar(d) == Digits[d + 1]

RECURSIVE FormatNat(_)
\* Display of an unsigned integer: decimal, no sign, no leading zero.
FormatNat(n) == IF n < 10 THEN <<DigitChar(n)>> ELSE FormatNat(n \div 10) \o <<DigitChar(n % 10)>>

RECURSIVE StripZeros(_)
StripZeros(d) == IF Len(d) > 1 /\ Head(d) = "0" THEN StripZeros(Tail(d)) ELSE d

\* u64::MAX in decimal.
U64Max == <<"1","8","4","4","6","7","4","4","0","7","3","7","0","9","5","5","1","6","1","5">>

\* str::parse::<u64>: an optional '+', then one or more decimal digits whose
\* value fits 64 bits.  The value is kept as its decimal text, which is what
\* Display prints for it.
ParseU64(s) ==
    LET d == IF s # <<>> /\ Head(s) = "+" THEN Tail(s) ELSE s
        z == StripZeros(d)
    IN  IF d = <<>> \/ \E i \in 1..Len(d) : ~IsDigit(d[i]) THEN [ok |-> FALSE]
        ELSE IF Len(z) > Len(U64Max) \/ (Len(z) = Len(U64Max) /\ StrLess(U64Max, z))
             THEN [ok |-> FALSE]
        ELSE [ok |-> TRUE, num |-> z]

RECURSIVE DigitsValue(_)
DigitsValue(d) == IF d = <<>> THEN 0 ELSE DigitsValue(SubSeq(d, 1, Len(d) - 1)) * 10 + DigitVal(d[Len(d)])

\* str::parse::<i8>: an optional sign, then digits, value in -128..127.
ParseI8(s) ==
    LET neg == s # <<>> /\ Head(s) = "-"
        d == IF s # <<>> /\ Head(s) \in {"+", "-"} THEN Tail(s) ELSE s
        z == StripZeros(d)
    IN  IF d = <<>> \/ \E i \in 1..Len(d) : ~IsDigit(d[i]) THEN [ok |-> FALSE]
        ELSE IF Len(z) > 3 THEN [ok |-> FALSE]
        ELSE IF neg /\ DigitsValue(z) > 128 THEN [ok |-> FALSE]
        ELSE IF ~neg /\ DigitsValue(z) > 127 THEN [ok |-> FALSE]
        ELSE [ok |-> TRUE, n |-> IF neg THEN 0 - DigitsValue(z) ELSE DigitsValue(z)]

None == [tag |-> "None"]

(***************************************************************************)
(* accept.rs: the Accept-Encoding negotiator                               *)
(***************************************************************************)

\* impl FromStr for Encoding
Encoding_from_str(s) ==
    IF s = <<"g","z","i","p">> THEN [ok |-> TRUE, encoding |-> "Gzip"]
    ELSE IF s = <<"d","e","f","l","a","t","e">> THEN [ok |-> TRUE, encoding |-> "Deflate"]
    ELSE IF s = <<"b","r">> THEN [ok |-> TRUE, encoding |-> "Br"]
    ELSE IF s = <<"*">> THEN [ok |-> TRUE, encoding |-> "All"]
    ELSE [ok |-> FALSE]

\* impl FromStr for AcceptEncoding: token[;q=weight]
AcceptEncoding_from_str(s) ==
    LET split == Split(s, <<";">>)
        encoding == Encoding_from_str(Trim(split[1]))
        qparts == IF Len(split) >= 2 THEN Split(split[2], <<"=">>) ELSE <<>>
        qparsed == IF Len(qparts) >= 2 THEN ParseI8(qparts[2]) ELSE [ok |-> FALSE]
        q == IF qparsed.ok THEN [tag |-> "Some", n |-> qparsed.n] ELSE None
    IN  IF encoding.ok THEN [ok |-> TRUE, entry |-> [encoding |-> encoding.encoding, q |-> q]]
        ELSE [ok |-> FALSE]

RECURSIVE AcceptEncodings_collect_lenient(_)
\* The loop of AcceptEncodings::from_str with an item that does not parse
\* skipped instead of returned as the error.
AcceptEncodings_collect_lenient(items) ==
    IF items = <<>> THEN [ok |-> TRUE, encs |-> <<>>]
    ELSE LET Keep(one, rest) ==
                 IF one.ok THEN [ok |-> TRUE, encs |-> <<one.entry>> \o rest.encs] ELSE rest
         IN  IF Trim(Head(items)) = <<>> THEN AcceptEncodings_collect_lenient(Tail(items))
             ELSE Keep(AcceptEncoding_from_str(Trim(Head(items))),
                       AcceptEncodings_collect_lenient(Tail(items)))

RECURSIVE AcceptEncodings_collect(_)
\* The loop of AcceptEncodings::from_str over the comma-separated items.
AcceptEncodings_collect(items) ==
    IF items = <<>> THEN [ok |-> TRUE, encs |-> <<>>]
    ELSE LET encoding == Trim(Head(items))
             rest == AcceptEncodings_collect(Tail(items))
         IN  IF encoding = <<>> THEN rest
             ELSE LET one == AcceptEncoding_from_str(encoding)
                  IN  IF ~one.ok THEN [ok |-> FALSE]
                      ELSE IF ~rest.ok THEN [ok |-> FALSE]
                      ELSE [ok |-> TRUE, encs |-> <<one.entry>> \o rest.encs]

\* impl FromStr for AcceptEncodings
AcceptEncodings_from_str(s) == AcceptEncodings_collect(Split(s, <<",">>))

\* AcceptEncoding::accept with the weight read: an entry of weight 0 refuses.
AcceptEncoding_accept_weighted(entry, encoding) ==
    /\ ~(entry.q.tag = "Some" /\ entry.q.n = 0)
    /\ \/ entry.encoding = "All"
       \/ entry.encoding = "Gzip" /\ encoding = "Gzip"
       \/ entry.encoding = "Deflate" /\ encoding = "Deflate"
       \/ entry.encoding = "Br" /\ encoding = "Brotli"

\* AcceptEncoding::accept
AcceptEncoding_accept(entry, encoding) ==
    \/ entry.encoding = "All"
    \/ entry.encoding = "Gzip" /\ encoding = "Gzip"
    \/ entry.encoding = "Deflate" /\ encoding = "Deflate"
    \/ entry.encoding = "Br" /\ encoding = "Brotli"

\* AcceptEncodings::accept
AcceptEncodings_accept(encs, encoding) ==
    \E i \in 1..Len(encs) : AcceptEncoding_accept(encs[i], encoding)

\* impl ToString for Encoding
Encoding_to_string(e) ==
    CASE e = "Gzip" -> <<"g","z","i","p">>
      [] e = "Deflate" -> <<"d","e","f","l","a","t","e">>
      [] e = "Br" -> <<"b","r">>
      [] e = "All" -> <<"*">>

\* Display of a signed integer.
FormatInt(n) == IF n < 0 THEN <<"-">> \o FormatNat(0 - n) ELSE FormatNat(n)

\* impl ToString for AcceptEncoding
AcceptEncoding_to_string(entry) ==
    Encoding_to_string(entry.encoding)
        \o (IF entry.q.tag = "Some" THEN <<";","q","=">> \o FormatInt(entry.q.n) ELSE <<>>)

RECURSIVE AcceptEncodings_fold(_)
AcceptEncodings_fold(encs) ==
    IF encs = <<>> THEN <<>>
    ELSE AcceptEncoding_to_string(Head(encs)) \o <<","," ">> \o AcceptEncodings_fold(Tail(encs))

\* String::pop twice: the last two characters go, if there are any.
PopTwo(s) == SubSeq(s, 1, Len(s) - 2)

\* impl ToString for AcceptEncodings
AcceptEncodings_to_string(encs) == PopTwo(AcceptEncodings_fold(encs))

(***************************************************************************)
(* mime.rs                                                                 *)
(***************************************************************************)

MimeTypes == {<<"t","e","x","t">>, <<"a","p","p","l","i","c","a","t","i","o","n">>, <<"a","u","d","i","o">>, <<"i","m","a","g","e">>, <<"m","e","s","s","a","g","e">>, <<"m","o","d","e","l">>, <<"v","i","d","e","o">>}

\* Mime::new: the closed set of types, Custom for every other type.
Mime_new(type_, subtype, parameters) ==
    IF type_ \in MimeTypes
    THEN [custom |-> FALSE, type_ |-> type_, subtype |-> subtype, parameters |-> parameters]
    ELSE [custom |-> TRUE, type_ |-> type_, subtype |-> subtype, parameters |-> parameters]

\* Mime::parse.  The two unwraps on the parameter's '=' split abort when the
\* parameter has no '='.
Mime_parse(raw) ==
    LET split == Split(raw, <<"/">>)
    IN  IF Len(split) < 2 THEN [tag |-> "Err"]
        ELSE LET sub == split[2]
                 parts == Split(sub, <<";">>)
                 param_split == Split(parts[2], <<"=">>)
             IN  IF ~Contains(sub, <<";">>)
                 THEN [tag |-> "Ok", mime |-> Mime_new(split[1], sub, None)]
                 ELSE IF Len(param_split) < 2 THEN [tag |-> "Panic"]
                 ELSE [tag |-> "Ok",
                       mime |-> Mime_new(split[1], parts[1],
                                   [tag |-> "Some", key |-> param_split[1], value |-> param_split[2]])]

\* impl ToString for Mime
Mime_to_string(m) ==
    m.type_ \o <<"/">> \o m.subtype
        \o (IF m.parameters.tag = "Some"
            THEN <<";">> \o m.parameters.key \o <<"=">> \o m.parameters.value
            ELSE <<>>)

(***************************************************************************)
(* Percent-decoding (urlencoding::decode), used by cookie.rs, search.rs    *)
(* and common.rs                                                           *)
(***************************************************************************)

HexDigits == <<"0","1","2","3","4","5","6","7","8","9","A","B","C","D","E","F">>
IsHex(c) == \E i \in 1..16 : HexDigits[i] = UpperChar(c)
HexVal(c) == (CHOOSE i \in 1..16 : HexDigits[i] = UpperChar(c)) - 1

RECURSIVE PercentBytes(_)
\* The bytes after %XX is replaced by the byte XX; a '%' that is not followed
\* by two hex digits stays as it is.
PercentBytes(s) ==
    IF s = <<>> THEN <<>>
    ELSE IF Head(s) = "%" /\ Len(s) >= 3 /\ IsHex(s[2]) /\ IsHex(s[3])
         THEN <<16 * HexVal(s[2]) + HexVal(s[3])>> \o PercentBytes(SubSeq(s, 4, Len(s)))
         ELSE Utf8Bytes(Head(s)) \o PercentBytes(Tail(s))

RECURSIVE Utf8Decode(_)
\* String::from_utf8 on the characters of the model: ASCII, U+00E9, U+00FF, U+0100
\* and U+FFFD decode; every other byte sequence is an error.
Utf8Decode(b) ==
    IF b = <<>> THEN [ok |-> TRUE, str |-> <<>>]
    ELSE LET one ==
                 IF Head(b) = 9 THEN [n |-> 1, c |-> "\t"]
                 ELSE IF Head(b) = 10 THEN [n |-> 1, c |-> "\n"]
                 ELSE IF Head(b) = 13 THEN [n |-> 1, c |-> "\r"]
                 ELSE IF Head(b) \in 32..126 THEN [n |-> 1, c |-> Printable[Head(b) - 31]]
                 ELSE IF Len(b) >= 2 /\ SubSeq(b, 1, 2) = <<195, 169>> THEN [n |-> 2, c |-> "U+00E9"]
                 ELSE IF Len(b) >= 2 /\ SubSeq(b, 1, 2) = <<195, 191>> THEN [n |-> 2, c |-> "U+00FF"]
                 ELSE IF Len(b) >= 2 /\ SubSeq(b, 1, 2) = <<196, 128>> THEN [n |-> 2, c |-> "U+0100"]
                 ELSE IF Len(b) >= 3 /\ SubSeq(b, 1, 3) = <<239, 191, 189>> THEN [n |-> 3, c |-> "U+FFFD"]
                 ELSE [n |-> 0, c |-> "?"]
             rest == Utf8Decode(SubSeq(b, one.n + 1, Len(b)))
         IN  IF one.n = 0 \/ ~rest.ok THEN [ok |-> FALSE]
             ELSE [ok |-> TRUE, str |-> <<one.c>> \o rest.str]

\* urlencoding::decode
decode(s) == Utf8Decode(PercentBytes(s))

(***************************************************************************)
(* cookie.rs                                                               *)
(***************************************************************************)

RECURSIVE RequestCookie_collect(_)
\* The loop of RequestCookie::parse over the "; "-separated segments.
RequestCookie_collect(segments) ==
    IF segments = <<>> THEN [ok |-> TRUE, cookies |-> <<>>]
    ELSE LET pair == Split(Head(segments), <<"=">>)
             value == decode(pair[2])
             rest == RequestCookie_collect(Tail(segments))
         IN  IF Len(pair) # 2 THEN [ok |-> FALSE]
             ELSE IF pair[1] = <<>> THEN [ok |-> FALSE]
             ELSE IF ~value.ok THEN [ok |-> FALSE]
             ELSE IF ~rest.ok THEN [ok |-> FALSE]
             ELSE [ok |-> TRUE, cookies |-> <<[name |-> pair[1], value |-> value.str]>> \o rest.cookies]

\* RequestCookie::parse
RequestCookie_parse(raw) == RequestCookie_collect(Split(raw, <<";"," ">>))

\* String::pop: the last character goes, if there is one.
Pop(s) == SubSeq(s, 1, Len(s) - 1)

\* impl ToString for ResponseCookie
ResponseCookie_to_string(c) ==
    Pop(c.name \o <<"=">> \o c.value \o <<";">>
        \o (IF c.max_age.tag = "Some" THEN <<"M","a","x","-","A","g","e","=">> \o c.max_age.num \o <<";">> ELSE <<>>)
        \o (IF c.expires.tag = "Some" THEN <<"E","x","p","i","r","e","s","=">> \o c.expires.str \o <<";">> ELSE <<>>)
        \o (IF c.path.tag = "Some" THEN <<"P","a","t","h","=">> \o c.path.str \o <<";">> ELSE <<>>)
        \o (IF c.domain.tag = "Some" THEN <<"D","o","m","a","i","n","=">> \o c.domain.str \o <<";">> ELSE <<>>)
        \o (IF c.secure THEN <<"S","e","c","u","r","e",";">> ELSE <<>>)
        \o (IF c.http_only THEN <<"H","t","t","p","O","n","l","y",";">> ELSE <<>>))

(***************************************************************************)
(* search.rs: the query codec                                              *)
(***************************************************************************)

\* str::replace('+', " ")
PlusToSpace(s) == [i \in 1..Len(s) |-> IF s[i] = "+" THEN " " ELSE s[i]]

\* decode(x), or x itself when it does not decode, then '+' to space.
DecodeOrKeep(x) == PlusToSpace(IF decode(x).ok THEN decode(x).str ELSE x)

\* SearchParam::parse taking the first two pieces of a segment with more
\* than one '='.
SearchParam_parse_first_two(s) ==
    LET split == Split(s, <<"=">>)
    IN  IF Len(split) < 2 THEN [ok |-> FALSE]
        ELSE [ok |-> TRUE,
              param |-> [name |-> DecodeOrKeep(split[1]), value |-> <<DecodeOrKeep(split[2])>>]]

\* SearchParam::parse: exactly one '='.
SearchParam_parse(s) ==
    LET split == Split(s, <<"=">>)
    IN  IF Len(split) # 2 THEN [ok |-> FALSE]
        ELSE [ok |-> TRUE,
              param |-> [name |-> DecodeOrKeep(split[1]), value |-> <<DecodeOrKeep(split[2])>>]]

\* SearchParams::push without the search for the key.
SearchParams_push_always(values, data) == Append(values, data)

\* SearchParams::push: a value for a key already present is appended to the
\* first entry of that key, a new key goes to the end.
SearchParams_push(values, data) ==
    LET same == {i \in 1..Len(values) : values[i].name = data.name}
    IN  IF same # {}
        THEN LET index == Min(same)
             IN  [values EXCEPT ![index] =
                     [name |-> values[index].name, value |-> Append(values[index].value, data.value[1])]]
        ELSE Append(values, data)

RECURSIVE SearchParams_collect(_, _)
\* The loop of SearchParams::parse over the '&'-separated segments.
SearchParams_collect(raws, values) ==
    IF raws = <<>> THEN [ok |-> TRUE, params |-> values]
    ELSE LET parsed == SearchParam_parse(Head(raws))
         IN  IF ~parsed.ok THEN [ok |-> FALSE]
             ELSE SearchParams_collect(Tail(raws), SearchParams_push(values, parsed.param))

\* SearchParams::parse
SearchParams_parse(s) ==
    SearchParams_collect(Split(IF StartsWith(s, <<"?">>) THEN Tail(s) ELSE s, <<"&">>), <<>>)

\* SearchParams::remove: position(..).unwrap() panics when no entry has the
\* name.
SearchParams_remove(values, name) ==
    LET same == {i \in 1..Len(values) : values[i].name = name}
    IN  IF same = {} THEN [tag |-> "Panic"]
        ELSE [tag |-> "Ok",
              params |-> SubSeq(values, 1, Min(same) - 1) \o SubSeq(values, Min(same) + 1, Len(values))]

\* encode that leaves every character as it is.
encode_verbatim(s) == s

RECURSIVE encode(_)
\* urlencoding::encode: the letters, the digits and - _ . ~ stay, every other
\* byte of the UTF-8 text becomes %XX with upper-case hex digits.
encode(s) ==
    IF s = <<>> THEN <<>>
    ELSE IF IsUpper(Head(s)) \/ IsLower(Head(s)) \/ IsDigit(Head(s)) \/ Head(s) \in {"-", "_", ".", "~"}
         THEN <<Head(s)>> \o encode(Tail(s))
         ELSE LET b == Utf8Bytes(Head(s))
                  hex == [i \in 1..Len(b) |-> <<"%", HexDigits[(b[i] \div 16) + 1], HexDigits[(b[i] % 16) + 1]>>]
              IN  Join(hex, <<>>) \o encode(Tail(s))

\* SearchParam::to_string: name=value& for each value, then the last
\* character is removed; with no value String::remove panics.
SearchParam_to_string(self) ==
    IF self.value = <<>> THEN [tag |-> "Panic"]
    ELSE [tag |-> "Ok",
          str |-> Pop(Join([i \in 1..Len(self.value) |->
                                encode(self.name) \o <<"=">> \o encode(self.value[i]) \o <<"&">>], <<>>))]

RECURSIVE StripAmpersands(_)
\* while res.ends_with("&") { res.remove(res.len() - 1) }
StripAmpersands(res) ==
    IF res # <<>> /\ res[Len(res)] = "&" THEN StripAmpersands(Pop(res)) ELSE res

\* SearchParams::to_string
SearchParams_to_string(self) ==
    IF Len(self) = 0 THEN [tag |-> "Ok", str |-> <<>>]
    ELSE IF \E i \in 1..Len(self) : SearchParam_to_string(self[i]).tag = "Panic" THEN [tag |-> "Panic"]
    ELSE [tag |-> "Ok",
          str |-> StripAmpersands(<<"?">> \o Join([i \in 1..Len(self) |->
                                                   SearchParam_to_string(self[i]).str \o <<"&">>], <<>>))]

(***************************************************************************)
(* common.rs: methods, versions, cache directives, headers, status, URI    *)
(***************************************************************************)

MethodNames == {<<"G","E","T">>, <<"P","O","S","T">>, <<"P","U","T">>, <<"D","E","L","E","T","E">>, <<"H","E","A","D">>, <<"P","A","T","C","H">>, <<"O","P","T","I","O","N","S">>, <<"C","O","N","N","E","C","T">>, <<"T","R","A","C","E">>}

\* The method match of handle_connection: the token in upper case against
\* the closed set, Unknown with the raw token otherwise.
ParseMethod(raw_method) ==
    IF to_uppercase(raw_method) \in MethodNames
    THEN [known |-> TRUE, name |-> to_uppercase(raw_method)]
    ELSE [known |-> FALSE, name |-> raw_method]

Method_Head == [known |-> TRUE, name |-> <<"H","E","A","D">>]

VersionNames == {<<"H","T","T","P","/","1",".","0">>, <<"H","T","T","P","/","1",".","1">>, <<"H","T","T","P","/","2",".","0">>}

\* The version match of handle_connection, case-sensitive.
ParseVersion(raw_version) == [known |-> raw_version \in VersionNames, name |-> raw_version]

\* impl ToString for Version
Version_to_string(v) == v.name

\* u32::MAX in decimal.
U32Max == <<"4","2","9","4","9","6","7","2","9","5">>

\* str::parse::<u32>, the value kept as its decimal text.
ParseU32(s) ==
    LET d == IF s # <<>> /\ Head(s) = "+" THEN Tail(s) ELSE s
        z == StripZeros(d)
    IN  IF d = <<>> \/ \E i \in 1..Len(d) : ~IsDigit(d[i]) THEN [ok |-> FALSE]
        ELSE IF Len(z) > Len(U32Max) \/ (Len(z) = Len(U32Max) /\ StrLess(U32Max, z))
             THEN [ok |-> FALSE]
        ELSE [ok |-> TRUE, num |-> z]

CacheKeyed == {<<"m","a","x","-","a","g","e">>, <<"s","t","a","l","e","-","w","h","i","l","e","-","r","e","v","a","l","i","d","a","t","e">>, <<"s","t","a","l","e","-","i","f","-","e","r","r","o","r">>, <<"m","a","x","-","s","t","a","l","e">>, <<"m","i","n","-","f","r","e","s","h">>}
CacheBare == {<<"n","o","-","c","a","c","h","e">>, <<"m","u","s","t","-","r","e","v","a","l","i","d","a","t","e">>, <<"p","r","o","x","y","-","r","e","v","a","l","i","d","a","t","e">>, <<"n","o","-","s","t","o","r","e">>, <<"p","r","i","v","a","t","e">>,
              <<"p","u","b","l","i","c">>, <<"m","u","s","t","-","u","n","d","e","r","s","t","a","n","d">>, <<"n","o","-","t","r","a","n","s","f","o","r","m">>, <<"i","m","m","u","t","a","b","l","e">>, <<"o","n","l","y","-","i","f","-","c","a","c","h","e","d">>}

\* Cache::parse_once.  split_at(find('=')) leaves the '=' at the head of the
\* value that is then parsed as a number.
Cache_parse_once(raw_cache) ==
    IF Contains(raw_cache, <<"=">>)
    THEN LET at == Find(raw_cache, <<"=">>)
             key == SubSeq(raw_cache, 1, at - 1)
             value == SubSeq(raw_cache, at, Len(raw_cache))
         IN  IF key \in CacheKeyed /\ ParseU32(value).ok
             THEN [tag |-> "Some", cache |-> [key |-> key, keyed |-> TRUE, num |-> ParseU32(value).num]]
             ELSE None
    ELSE IF raw_cache \in CacheBare
         THEN [tag |-> "Some", cache |-> [key |-> raw_cache, keyed |-> FALSE, num |-> <<>>]]
         ELSE None

RECURSIVE TrimSpacesStart(_)
TrimSpacesStart(d) == IF StartsWith(d, <<" ">>) THEN TrimSpacesStart(Tail(d)) ELSE d
RECURSIVE TrimSpacesEnd(_)
TrimSpacesEnd(d) == IF d # <<>> /\ d[Len(d)] = " " THEN TrimSpacesEnd(Pop(d)) ELSE d

RECURSIVE Cache_collect(_)
Cache_collect(items) ==
    IF items = <<>> THEN <<>>
    ELSE LET one == Cache_parse_once(TrimSpacesEnd(TrimSpacesStart(Head(items))))
         IN  (IF one.tag = "Some" THEN <<one.cache>> ELSE <<>>) \o Cache_collect(Tail(items))

\* Cache::parse: the directives that parse, in order; the others are dropped.
Cache_parse(raw_cache) == Cache_collect(Split(raw_cache, <<",">>))

\* impl ToString for Cache
Cache_to_string(c) == IF c.keyed THEN c.key \o <<"=">> \o c.num ELSE c.key

RECURSIVE Cache_fold(_)
Cache_fold(vec) ==
    IF vec = <<>> THEN <<>> ELSE Cache_to_string(Head(vec)) \o <<","," ">> \o Cache_fold(Tail(vec))

RECURSIVE StripCommaSpace(_)
StripCommaSpace(val) ==
    IF val # <<>> /\ val[Len(val)] \in {" ", ","} THEN StripCommaSpace(Pop(val)) ELSE val

\* Cache::format
Cache_format(vec) == StripCommaSpace(Cache_fold(vec))

\* The Connection match of handle_connection, on the value in lower case.
ParseConnection(value) ==
    IF to_lowercase(value) \in {<<"k","e","e","p","-","a","l","i","v","e">>, <<"c","l","o","s","e">>, <<"u","p","g","r","a","d","e">>}
    THEN [known |-> TRUE, str |-> to_lowercase(value)]
    ELSE [known |-> FALSE, str |-> value]

\* impl ToString for Connection
Connection_to_string(c) == c.str

\* The header variants whose value is the raw text, with their canonical names.
TextHeaderNames ==
    [Host |-> <<"H","o","s","t">>, UserAgent |-> <<"U","s","e","r","-","A","g","e","n","t">>, Accept |-> <<"A","c","c","e","p","t">>,
     AcceptLanguage |-> <<"A","c","c","e","p","t","-","L","a","n","g","u","a","g","e">>, AcceptCharset |-> <<"A","c","c","e","p","t","-","C","h","a","r","s","e","t">>,
     AcceptDatetime |-> <<"A","c","c","e","p","t","-","D","a","t","e","t","i","m","e">>, AcceptRanges |-> <<"A","c","c","e","p","t","-","R","a","n","g","e","s">>,
     Date |-> <<"D","a","t","e">>, Trailer |-> <<"T","r","a","i","l","e","r">>, TransferEncoding |-> <<"T","r","a","n","s","f","e","r","-","E","n","c","o","d","i","n","g">>,
     Upgrade |-> <<"U","p","g","r","a","d","e">>, Server |-> <<"S","e","r","v","e","r">>, Origin |-> <<"O","r","i","g","i","n">>,
     Location |-> <<"L","o","c","a","t","i","o","n">>]

TextHeaderKinds == DOMAIN TextHeaderNames

\* Header::name: the canonical name of the variant, the stored name for Unknown.
Header_name(h) ==
    IF h.kind \in TextHeaderKinds THEN TextHeaderNames[h.kind]
    ELSE CASE h.kind = "Connection" -> <<"C","o","n","n","e","c","t","i","o","n">>
           [] h.kind = "ContentLength" -> <<"C","o","n","t","e","n","t","-","L","e","n","g","t","h">>
           [] h.kind = "ContentType" -> <<"C","o","n","t","e","n","t","-","T","y","p","e">>
           [] h.kind = "AcceptEncoding" -> <<"A","c","c","e","p","t","-","E","n","c","o","d","i","n","g">>
           [] h.kind = "CacheControl" -> <<"C","a","c","h","e","-","C","o","n","t","r","o","l">>
           [] h.kind = "Cookie" -> <<"C","o","o","k","i","e">>
           [] h.kind = "Pragma" -> <<"P","r","a","g","m","a">>
           [] h.kind = "ProxyConnection" -> <<"P","r","o","x","y","-","C","o","n","n","e","c","t","i","o","n">>
           [] h.kind = "Dnt" -> <<"D","N","T">>
           [] h.kind = "SetCookie" -> <<"S","e","t","-","C","o","o","k","i","e">>
           [] h.kind = "ContentEncoding" -> <<"C","o","n","t","e","n","t","-","E","n","c","o","d","i","n","g">>
           [] h.kind = "Unknown" -> h.name

\* impl ToString for BodyEncoding
BodyEncoding_to_string(e) ==
    CASE e = "Gzip" -> <<"g","z","i","p">>
      [] e = "Deflate" -> <<"d","e","f","l","a","t","e">>
      [] e = "Brotli" -> <<"b","r">>

RECURSIVE Cookie_fold(_)
Cookie_fold(cookies) ==
    IF cookies = <<>> THEN <<>>
    ELSE Head(cookies).name \o <<"=">> \o Head(cookies).value \o <<";"," ">> \o Cookie_fold(Tail(cookies))

RECURSIVE ContentEncoding_fold(_)
ContentEncoding_fold(encodings) ==
    IF encodings = <<>> THEN <<>>
    ELSE BodyEncoding_to_string(Head(encodings)) \o <<","," ">> \o ContentEncoding_fold(Tail(encodings))

CRLF == <<"\r","\n">>

\* impl ToString for Header: the wire line of the header.
Header_to_string(h) ==
    IF h.kind \in TextHeaderKinds THEN TextHeaderNames[h.kind] \o <<":"," ">> \o h.str \o CRLF
    ELSE CASE h.kind = "Connection" -> <<"C","o","n","n","e","c","t","i","o","n",":"," ">> \o Connection_to_string(h.conn) \o CRLF
           [] h.kind = "ContentLength" -> <<"C","o","n","t","e","n","t","-","L","e","n","g","t","h",":"," ">> \o h.num \o CRLF
           [] h.kind = "ContentType" -> <<"C","o","n","t","e","n","t","-","T","y","p","e",":"," ">> \o Mime_to_string(h.mime) \o CRLF
           [] h.kind = "AcceptEncoding" ->
                  <<"A","c","c","e","p","t","-","E","n","c","o","d","i","n","g",":"," ">> \o AcceptEncodings_to_string(h.encs) \o CRLF
           [] h.kind = "CacheControl" -> <<"C","a","c","h","e","-","C","o","n","t","r","o","l",":"," ">> \o Cache_format(h.caches) \o CRLF
           [] h.kind = "Cookie" -> <<"C","o","o","k","i","e",":"," ">> \o Cookie_fold(h.cookies) \o CRLF
           [] h.kind = "Pragma" -> <<"P","r","a","g","m","a",":"," ">> \o Cache_to_string(h.cache) \o CRLF
           [] h.kind = "ProxyConnection" ->
                  <<"P","r","o","x","y","-","C","o","n","n","e","c","t","i","o","n",":"," ">> \o Connection_to_string(h.conn) \o CRLF
           [] h.kind = "Dnt" ->
                  <<"D","N","T",":"," ">> \o (CASE h.dnt = "PrefersAllowTrack" -> <<"0">>
                                 [] h.dnt = "PrefersNoTrack" -> <<"1">>
                                 [] h.dnt = "NotSpecified" -> <<"n","u","l","l">>)
           [] h.kind = "SetCookie" -> <<"S","e","t","-","C","o","o","k","i","e",":"," ">> \o ResponseCookie_to_string(h.cookie) \o CRLF
           [] h.kind = "ContentEncoding" ->
                  <<"C","o","n","t","e","n","t","-","E","n","c","o","d","i","n","g",":"," ">> \o PopTwo(ContentEncoding_fold(h.encodings)) \o CRLF
           [] h.kind = "Unknown" -> h.name \o <<":"," ">> \o h.str \o CRLF

\* The reason text that Status::to_string prints for each named variant.
StatusText ==
    [SwitchingProtocols |-> <<"H","T","T","P","/","1",".","1"," ","1","0","1"," ","S","w","i","t","c","h","i","n","g"," ","P","r","o","t","o","c","o","l","s","\r","\n">>,
     Ok |-> <<"2","0","0"," ","O","K">>, Created |-> <<"2","0","1"," ","C","r","e","a","t","e","d">>, Accepted |-> <<"2","0","2"," ","A","c","c","e","p","t","e","d">>,
     NoContent |-> <<"2","0","4"," ","N","o"," ","C","o","n","t","e","n","t">>, ResetContent |-> <<"2","0","5"," ","R","e","s","e","t"," ","C","o","n","t","e","n","t">>,
     PartialContent |-> <<"2","0","6"," ","P","a","r","t","i","a","l"," ","C","o","n","t","e","n","t">>, MultipleChoices |-> <<"3","0","0"," ","M","u","l","t","i","p","l","e"," ","C","h","o","i","c","e","s">>,
     MovedPermanently |-> <<"3","0","1"," ","M","o","v","e","d"," ","P","e","r","m","a","n","e","n","t","l","y">>, MovedTemporarily |-> <<"3","0","2"," ","M","o","v","e","d"," ","T","e","m","p","o","r","a","r","i","l","y">>,
     NotModified |-> <<"3","0","4"," ","N","o","t"," ","M","o","d","i","f","i","e","d">>, BadRequest |-> <<"4","0","0"," ","B","a","d"," ","R","e","q","u","e","s","t">>,
     Unauthorized |-> <<"4","0","1"," ","U","n","a","u","t","h","o","r","i","z","e","d">>, Forbidden |-> <<"4","0","3"," ","F","o","r","b","i","d","d","e","n">>,
     NotFound |-> <<"4","0","4"," ","N","o","t"," ","F","o","u","n","d">>, MethodNotAllowed |-> <<"4","0","5"," ","M","e","t","h","o","d"," ","N","o","t"," ","A","l","l","o","w","e","d">>,
     NotAcceptable |-> <<"4","0","6"," ","N","o","t"," ","A","c","c","e","p","t","a","b","l","e">>,
     ProxyAuthenticationRequired |-> <<"4","0","7"," ","P","r","o","x","y"," ","A","u","t","h","e","n","t","i","c","a","t","i","o","n"," ","R","e","q","u","i","r","e","d">>,
     RequestTimeout |-> <<"4","0","8"," ","R","e","q","u","e","s","t"," ","T","i","m","e","o","u","t">>, Conflict |-> <<"4","0","9"," ","C","o","n","f","l","i","c","t">>, Gone |-> <<"4","1","0"," ","G","o","n","e">>,
     LengthRequired |-> <<"4","1","1"," ","L","e","n","g","t","h"," ","R","e","q","u","i","r","e","d">>, PreconditionFailed |-> <<"4","1","2"," ","P","r","e","c","o","n","d","i","t","i","o","n"," ","F","a","i","l","e","d">>,
     RequestEntityTooLarge |-> <<"4","1","3"," ","R","e","q","u","e","s","t"," ","E","n","t","i","t","y"," ","T","o","o"," ","L","a","r","g","e">>,
     RequestUriTooLong |-> <<"4","1","4"," ","R","e","q","u","e","s","t","-","U","R","I"," ","T","o","o"," ","L","o","n","g">>,
     UnsupportedMediaType |-> <<"4","1","5"," ","U","n","s","u","p","p","o","r","t","e","d"," ","M","e","d","i","a"," ","T","y","p","e">>,
     RequestedRangeNotSatisfiable |-> <<"4","1","6"," ","R","e","q","u","e","s","t","e","d"," ","R","a","n","g","e"," ","N","o","t"," ","S","a","t","i","s","f","i","a","b","l","e">>,
     ExpectationFailed |-> <<"4","1","7"," ","E","x","p","e","c","t","a","t","i","o","n"," ","F","a","i","l","e","d">>,
     InternalServerError |-> <<"5","0","0"," ","I","n","t","e","r","n","a","l"," ","S","e","r","v","e","r"," ","E","r","r","o","r">>, NotImplemented |-> <<"5","0","1"," ","N","o","t"," ","I","m","p","l","e","m","e","n","t","e","d">>,
     BadGateway |-> <<"5","0","2"," ","B","a","d"," ","G","a","t","e","w","a","y">>, ServiceUnavailable |-> <<"5","0","3"," ","S","e","r","v","i","c","e"," ","U","n","a","v","a","i","l","a","b","l","e">>,
     GatewayTimeout |-> <<"5","0","4"," ","G","a","t","e","w","a","y"," ","T","i","m","e","o","u","t">>,
     HttpVersionNotSupported |-> <<"5","0","5"," ","H","T","T","P"," ","V","e","r","s","i","o","n"," ","N","o","t"," ","S","u","p","p","o","r","t","e","d">>]

\* impl ToString for Status
Status_to_string(s) ==
    IF s.tag = "Unknown" THEN FormatNat(s.code) \o <<" ","U","n","k","n","o","w","n">>
    ELSE IF s.tag = "Custom" THEN FormatNat(s.code) \o <<" ">> \o s.reason
    ELSE StatusText[s.tag]

\* The numeric code => variant table of Status::from_code.
FromCodeTable ==
    <<<<101, "SwitchingProtocols">>, <<200, "Ok">>, <<201, "Created">>, <<202, "Accepted">>,
      <<204, "NoContent">>, <<205, "ResetContent">>, <<206, "PartialContent">>,
      <<300, "MultipleChoices">>, <<301, "MovedPermanently">>, <<302, "MovedTemporarily">>,
      <<304, "NotModified">>, <<400, "BadRequest">>, <<401, "Unauthorized">>, <<403, "Forbidden">>,
      <<404, "NotFound">>, <<405, "MethodNotAllowed">>, <<406, "NotAcceptable">>,
      <<407, "ProxyAuthenticationRequired">>, <<408, "RequestTimeout">>, <<409, "Conflict">>,
      <<410, "Gone">>, <<411, "LengthRequired">>, <<412, "PreconditionFailed">>,
      <<413, "RequestEntityTooLarge">>, <<414, "RequestUriTooLong">>,
      <<415, "UnsupportedMediaType">>, <<416, "RequestedRangeNotSatisfiable">>,
      <<500, "InternalServerError">>, <<501, "NotImplemented">>, <<502, "BadGateway">>,
      <<503, "ServiceUnavailable">>, <<504, "GatewayTimeout">>, <<505, "HttpVersionNotSupported">>>>

\* Status::from_code
Status_from_code(code) ==
    IF \E i \in 1..Len(FromCodeTable) : FromCodeTable[i][1] = code
    THEN [tag |-> FromCodeTable[CHOOSE i \in 1..Len(FromCodeTable) : FromCodeTable[i][1] = code][2]]
    ELSE [tag |-> "Unknown", code |-> code]

SearchParams_empty == <<>>

\* Uri::absolute: the URI of an origin-form target and the Host header.  The
\* unwrap on decode aborts when the path before '?' does not decode.
Uri_absolute(host, path) ==
    IF Contains(path, <<"?">>)
    THEN LET index == Find(path, <<"?">>)
             search_raw == SubSeq(path, index, Len(path))
             decoded == decode(SubSeq(path, 1, index - 1))
             search == SearchParams_parse(search_raw)
         IN  IF ~decoded.ok THEN [tag |-> "Panic"]
             ELSE [tag |-> "Ok",
                   uri |-> [scheme |-> <<"h","t","t","p">>, host |-> host, path |-> decoded.str,
                            search |-> IF search.ok THEN search.params ELSE SearchParams_empty]]
    ELSE [tag |-> "Ok",
          uri |-> [scheme |-> <<"h","t","t","p">>, host |-> host, path |-> path, search |-> SearchParams_empty]]

(***************************************************************************)
(* request.rs: the request parser                                          *)
(***************************************************************************)

\* `*byte as char`: a byte read as the character of the same code.
ByteAsChar(b) == IF b = "0xFF" THEN "U+00FF" ELSE b

\* String::from_utf8_lossy: a byte that is no valid UTF-8 becomes U+FFFD.
Utf8Lossy(bytes) == [i \in 1..Len(bytes) |-> IF bytes[i] = "0xFF" THEN "U+FFFD" ELSE bytes[i]]

\* One scanning loop of handle_connection: the bytes from parsed_bytes up to
\* the first `stop` byte are the token; parsed_bytes ends after the stop byte,
\* or at bytes_read when the buffer has no stop byte left.
ScanUntil(buffer, parsed_bytes, stop) ==
    LET hits == {i \in (parsed_bytes + 1)..Len(buffer) : buffer[i] = stop}
        last == IF hits = {} THEN Len(buffer) ELSE Min(hits) - 1
    IN  [token |-> [i \in 1..(last - parsed_bytes) |-> ByteAsChar(buffer[parsed_bytes + i])],
         parsed_bytes |-> IF hits = {} THEN Len(buffer) ELSE Min(hits)]

\* The variants that carry the raw value, by the lower-case name matched.
ParsedTextKinds == TextHeaderKinds \ {"Location"}

\* The Dnt match of handle_connection, on the value in lower case.
ParseDnt(value) ==
    IF to_lowercase(value) = <<"0">> THEN [ok |-> TRUE, dnt |-> "PrefersAllowTrack"]
    ELSE IF to_lowercase(value) = <<"1">> THEN [ok |-> TRUE, dnt |-> "PrefersNoTrack"]
    ELSE IF to_lowercase(value) = <<"n","u","l","l">> THEN [ok |-> TRUE, dnt |-> "NotSpecified"]
    ELSE [ok |-> FALSE]

\* The match on the lower-case header name in handle_connection: the typed
\* header, an error return, or an abort of the process (a failed unwrap).
ParseHeader(name, value) ==
    IF \E k \in ParsedTextKinds : to_lowercase(TextHeaderNames[k]) = name
    THEN [tag |-> "Ok",
          h |-> [kind |-> CHOOSE k \in ParsedTextKinds : to_lowercase(TextHeaderNames[k]) = name,
                 str |-> value]]
    ELSE IF name = <<"c","o","n","n","e","c","t","i","o","n">>
    THEN [tag |-> "Ok", h |-> [kind |-> "Connection", conn |-> ParseConnection(value)]]
    ELSE IF name = <<"c","o","n","t","e","n","t","-","l","e","n","g","t","h">>
    THEN IF ParseU64(value).ok
         THEN [tag |-> "Ok", h |-> [kind |-> "ContentLength", num |-> ParseU64(value).num]]
         ELSE [tag |-> "Panic"]
    ELSE IF name = <<"c","o","n","t","e","n","t","-","t","y","p","e">>
    THEN IF Mime_parse(value).tag = "Ok"
         THEN [tag |-> "Ok", h |-> [kind |-> "ContentType", mime |-> Mime_parse(value).mime]]
         ELSE [tag |-> Mime_parse(value).tag]
    ELSE IF name = <<"a","c","c","e","p","t","-","e","n","c","o","d","i","n","g">>
    THEN IF AcceptEncodings_from_str(value).ok
         THEN [tag |-> "Ok",
               h |-> [kind |-> "AcceptEncoding", encs |-> AcceptEncodings_from_str(value).encs]]
         ELSE [tag |-> "Err"]
    ELSE IF name = <<"c","a","c","h","e","-","c","o","n","t","r","o","l">>
    THEN [tag |-> "Ok", h |-> [kind |-> "CacheControl", caches |-> Cache_parse(value)]]
    ELSE IF name = <<"c","o","o","k","i","e">>
    THEN IF RequestCookie_parse(value).ok
         THEN [tag |-> "Ok", h |-> [kind |-> "Cookie", cookies |-> RequestCookie_parse(value).cookies]]
         ELSE [tag |-> "Err"]
    ELSE IF name = <<"p","r","a","g","m","a">>
    THEN IF Cache_parse_once(value).tag = "Some"
         THEN [tag |-> "Ok", h |-> [kind |-> "Pragma", cache |-> Cache_parse_once(value).cache]]
         ELSE [tag |-> "Err"]
    ELSE IF name = <<"p","r","o","x","y","-","c","o","n","n","e","c","t","i","o","n">>
    THEN [tag |-> "Ok", h |-> [kind |-> "ProxyConnection", conn |-> ParseConnection(value)]]
    ELSE IF name = <<"d","n","t">>
    THEN IF ParseDnt(value).ok
         THEN [tag |-> "Ok", h |-> [kind |-> "Dnt", dnt |-> ParseDnt(value).dnt]]
         ELSE [tag |-> "Err"]
    ELSE [tag |-> "Ok", h |-> [kind |-> "Unknown", name |-> name, str |-> value]]

\* One header line: split on ": ", the first piece in lower case is the
\* name, the second piece the value; the unwrap on the second piece aborts
\* when the line has no ": ".
ParseHeaderLine(header) ==
    LET split == Split(header, <<":"," ">>)
    IN  IF Len(split) < 2 THEN [tag |-> "Panic"]
        ELSE ParseHeader(to_lowercase(split[1]), split[2])

RECURSIVE ParseHeaderLines(_, _, _)
\* The loop over the header lines: it stops at the first line that returns
\* an error or aborts; host is the value of the last Host line seen.
ParseHeaderLines(lines, headers, host) ==
    IF lines = <<>> THEN [tag |-> "Ok", headers |-> headers, host |-> host]
    ELSE LET Push(one) ==
                 IF one.tag # "Ok" THEN [tag |-> one.tag]
                 ELSE ParseHeaderLines(Tail(lines), Append(headers, one.h),
                                       IF one.h.kind = "Host" THEN one.h.str ELSE host)
         IN  Push(ParseHeaderLine(Head(lines)))

\* The URI of an absolute-form target (http:// or https://).
AbsoluteFormUri(target) ==
    LET split == Split(target, <<"/","/">>)
        scheme == Pop(split[1])
        hostpath == Split(split[2], <<"/">>)
        host == hostpath[1]
        path == <<"/">> \o (IF Len(hostpath) >= 2 THEN hostpath[2] ELSE <<>>)
        index == Find(path, <<"?">>)
        decoded == decode(SubSeq(path, 1, index - 1))
        search == SearchParams_parse(SubSeq(path, index, Len(path)))
    IN  IF ~Contains(path, <<"?">>)
        THEN [tag |-> "Ok",
              uri |-> [scheme |-> scheme, host |-> host, path |-> path, search |-> SearchParams_empty]]
        ELSE IF ~decoded.ok THEN [tag |-> "Panic"]
        ELSE IF ~search.ok THEN [tag |-> "Err"]
        ELSE [tag |-> "Ok",
              uri |-> [scheme |-> scheme, host |-> host, path |-> decoded.str, search |-> search.params]]

\* handle_connection after a read that returned the bytes of `buffer`:
\* Ok with the Request, Err, or Panic when an unwrap or a slice index aborts
\* the process.
handle_connection(buffer) ==
    LET bytes_read == Len(buffer)
        m == ScanUntil(buffer, 0, " ")
        p == ScanUntil(buffer, m.parsed_bytes, " ")
        v == ScanUntil(buffer, p.parsed_bytes, "\r")
        parsed_bytes == v.parsed_bytes
        raw == Utf8Lossy(SubSeq(buffer, parsed_bytes + 2, bytes_read))
        split == Split(raw, <<"\r","\n","\r","\n">>)
        raw_headers == split[1]
        rest == Join(Tail(split), <<"\r","\n">>)
        path == p.token
        Build(parsed, uri) ==
            IF uri.tag # "Ok" THEN [tag |-> uri.tag]
            ELSE [tag |-> "Ok",
                  req |-> [method |-> ParseMethod(m.token), version |-> ParseVersion(v.token),
                           uri |-> uri.uri, headers |-> parsed.headers, body |-> rest,
                           raw |-> Utf8Lossy(buffer), responded |-> FALSE]]
        Locate(parsed) ==
            IF parsed.tag # "Ok" THEN [tag |-> parsed.tag]
            ELSE Build(parsed, IF StartsWith(path, <<"h","t","t","p",":","/","/">>) \/ StartsWith(path, <<"h","t","t","p","s",":","/","/">>)
                               THEN AbsoluteFormUri(path)
                               ELSE Uri_absolute(parsed.host, path))
    IN  IF parsed_bytes + 1 > bytes_read THEN [tag |-> "Panic"]
        ELSE Locate(ParseHeaderLines(Split(raw_headers, <<"\r","\n">>), <<>>, <<>>))

\* Request::get_header: the first header whose name matches, ignoring case.
get_header(request, name) ==
    LET hits == {i \in 1..Len(request.headers) :
                    to_lowercase(Header_name(request.headers[i])) = to_lowercase(name)}
    IN  IF hits = {} THEN None ELSE [tag |-> "Some", h |-> request.headers[Min(hits)]]

(***************************************************************************)
(* response.rs: the response serializer                                    *)
(***************************************************************************)

\* `c as u8`: the low eight bits of the character's code.
CharAsU8(c) ==
    IF c = "U+00E9" THEN "0xE9"
    ELSE IF c = "U+00FF" THEN "0xFF"
    ELSE IF c = "U+0100" THEN "0x00"
    ELSE IF c = "U+FFFD" THEN "0xFD"
    ELSE c

\* push_str: one byte per character of the text.
push_str(vec, data) == vec \o [i \in 1..Len(data) |-> CharAsU8(data[i])]

\* CompressionLevel::fast
CompressionLevel_fast == 1

\* The codec call of to_vector (GzEncoder, DeflateEncoder, brotli
\* CompressorReader at the given or the default level), as a frame around
\* the data that names the codec and the level.  The codecs write to memory
\* and return Ok.
Encode(encoding, level, data) ==
    LET l == IF level.tag = "Some" THEN level.n ELSE CompressionLevel_fast
    IN  [ok |-> TRUE,
         data |-> <<CASE encoding = "Gzip" -> "gzip("
                      [] encoding = "Deflate" -> "deflate("
                      [] encoding = "Brotli" -> "br(">>
                  \o FormatNat(l) \o <<":">> \o data \o <<")">>]

\* has_content_length of to_vector
has_content_length(headers) == \E i \in 1..Len(headers) : headers[i].kind = "ContentLength"

\* WithContentLength without the has_content_length test: the computed
\* header is pushed whatever the response carries.
WithContentLength_unconditional(self) ==
    IF self.body.tag = "Text"
    THEN Append(self.headers, [kind |-> "ContentLength", num |-> FormatNat(Len(Utf8(self.body.text)))])
    ELSE IF self.body.tag = "Binary"
         THEN Append(self.headers, [kind |-> "ContentLength", num |-> FormatNat(Len(self.body.bytes))])
    ELSE self.headers

\* The headers of the response, then a computed Content-Length when the
\* response has none and has a Text or Binary body.
WithContentLength(self) ==
    IF has_content_length(self.headers) THEN self.headers
    ELSE IF self.body.tag = "Text"
         THEN Append(self.headers, [kind |-> "ContentLength", num |-> FormatNat(Len(Utf8(self.body.text)))])
    ELSE IF self.body.tag = "Binary"
         THEN Append(self.headers, [kind |-> "ContentLength", num |-> FormatNat(Len(self.body.bytes))])
    ELSE self.headers

\* support_encoding without the negotiation: any directive is honoured.
support_encoding_unnegotiated(self, request) == self.encoding.encoding.tag = "Some"

\* support_encoding of to_vector: the response has an encoding directive and
\* the header that get_header("accept-encoding") finds accepts it.
support_encoding(self, request) ==
    /\ self.encoding.encoding.tag = "Some"
    /\ LET accept_encodings == get_header(request, <<"a","c","c","e","p","t","-","e","n","c","o","d","i","n","g">>)
       IN  /\ accept_encodings.tag = "Some"
           /\ accept_encodings.h.kind = "AcceptEncoding"
           /\ AcceptEncodings_accept(accept_encodings.h.encs, self.encoding.encoding.e)

\* The header list before the sort: Content-Encoding is pushed last.
UnsortedHeaders(self, request) ==
    IF support_encoding(self, request)
    THEN Append(WithContentLength(self), [kind |-> "ContentEncoding", encodings |-> <<self.encoding.encoding.e>>])
    ELSE WithContentLength(self)

\* One step of a stable sort: h goes after every header whose name is not
\* greater than its own.
InsertByName(sorted, h) ==
    LET later == {i \in 1..Len(sorted) : StrLess(Header_name(h), Header_name(sorted[i]))}
        at == IF later = {} THEN Len(sorted) + 1 ELSE Min(later)
    IN  SubSeq(sorted, 1, at - 1) \o <<h>> \o SubSeq(sorted, at, Len(sorted))

RECURSIVE SortFrom(_, _)
SortFrom(headers, sorted) ==
    IF headers = <<>> THEN sorted ELSE SortFrom(Tail(headers), InsertByName(sorted, Head(headers)))

\* sort_by_name without the sort.
sort_by_name_unsorted(headers) == headers

\* headers.sort_by(|a, b| a.name().cmp(&b.name())): a stable sort by name.
sort_by_name(headers) == SortFrom(headers, <<>>)

\* The header list that to_vector emits.
FinalHeaders(self, request) == sort_by_name(UnsortedHeaders(self, request))

RECURSIVE HeaderLines(_)
HeaderLines(headers) ==
    IF headers = <<>> THEN <<>> ELSE Header_to_string(Head(headers)) \o HeaderLines(Tail(headers))

\* format!("{} {}\r\n", version, status)
StatusLine(self, request) ==
    Version_to_string(request.version) \o <<" ">> \o Status_to_string(self.status) \o <<"\r","\n">>

\* The bytes of to_vector up to and with the blank line: the status line,
\* the header lines, "\r\n".
ResponseHead(self, request) ==
    push_str(push_str(push_str(<<>>, StatusLine(self, request)),
                      HeaderLines(FinalHeaders(self, request))), <<"\r","\n">>)

\* should_print_body without the arms for Unknown and Custom: only the
\* NoContent variant is taken for a 204.
should_print_body_variant_only(self, request) ==
    IF request.method = Method_Head THEN FALSE
    ELSE IF self.status.tag = "NoContent" THEN FALSE
    ELSE TRUE

\* should_print_body of to_vector
should_print_body(self, request) ==
    IF request.method = Method_Head THEN FALSE
    ELSE IF self.status.tag = "NoContent" THEN FALSE
    ELSE IF self.status.tag = "Unknown" THEN self.status.code # 204
    ELSE IF self.status.tag = "Custom" THEN self.status.code # 204
    ELSE TRUE

\* The body as bytes, before any codec.
BodyData(self) ==
    IF self.body.tag = "Text" THEN [i \in 1..Len(self.body.text) |-> CharAsU8(self.body.text[i])]
    ELSE IF self.body.tag = "Binary" THEN self.body.bytes
    ELSE <<>>

\* The bytes of to_vector after the blank line.
ResponseBodyBytes(self, request) ==
    IF ~should_print_body(self, request) THEN <<>>
    ELSE IF support_encoding(self, request)
    THEN LET res == Encode(self.encoding.encoding.e, self.encoding.level, BodyData(self))
         IN  IF res.ok THEN res.data ELSE BodyData(self)
    ELSE BodyData(self)

\* Response::to_vector
to_vector(self, request) == ResponseHead(self, request) \o ResponseBodyBytes(self, request)

\* Response::empty
Response_empty ==
    [status |-> [tag |-> "Ok"], headers |-> <<>>, body |-> [tag |-> "None"],
     encoding |-> [encoding |-> None, level |-> None]]

\* What stream.write did with the serialized response: an error, or Ok(n)
\* with n bytes taken, all of them or fewer.
WriteOutcomes == {"all", "part", "err"}

Written(bytes, write) ==
    IF write = "all" THEN bytes
    ELSE IF write = "part" THEN SubSeq(bytes, 1, Len(bytes) \div 2)
    ELSE <<>>

\* respond without the test of the responded flag.
respond_unguarded(self, response, write) ==
    LET bytes == to_vector(response, self)
    IN  IF write = "err"
        THEN [self |-> self, result |-> [tag |-> "Err", kind |-> "Io", n |-> 0],
              written |-> <<>>, wrote |-> FALSE, bytes |-> bytes]
        ELSE [self |-> [self EXCEPT !.responded = TRUE],
              result |-> [tag |-> "Ok", kind |-> "", n |-> Len(Written(bytes, write))],
              written |-> Written(bytes, write), wrote |-> TRUE, bytes |-> bytes]

\* respond with the flag set before the write, so that a failed write leaves
\* it set.
respond_flag_first(self, response, write) ==
    IF self.responded
    THEN [self |-> self, result |-> [tag |-> "Err", kind |-> "AlreadyResponded", n |-> 0],
          written |-> <<>>, wrote |-> FALSE, bytes |-> <<>>]
    ELSE LET bytes == to_vector(response, self)
         IN  IF write = "err"
             THEN [self |-> [self EXCEPT !.responded = TRUE], result |-> [tag |-> "Err", kind |-> "Io", n |-> 0],
                   written |-> <<>>, wrote |-> FALSE, bytes |-> bytes]
             ELSE [self |-> [self EXCEPT !.responded = TRUE],
                   result |-> [tag |-> "Ok", kind |-> "", n |-> Len(Written(bytes, write))],
                   written |-> Written(bytes, write), wrote |-> TRUE, bytes |-> bytes]

\* Request::respond with the outcome of its one stream.write: the Request
\* afterwards, the result returned, the bytes the stream took and whether
\* write returned Ok.
respond(self, response, write) ==
    IF self.responded
    THEN [self |-> self, result |-> [tag |-> "Err", kind |-> "AlreadyResponded", n |-> 0],
          written |-> <<>>, wrote |-> FALSE, bytes |-> <<>>]
    ELSE LET bytes == to_vector(response, self)
         IN  IF write = "err"
             THEN [self |-> self, result |-> [tag |-> "Err", kind |-> "Io", n |-> 0],
                   written |-> <<>>, wrote |-> FALSE, bytes |-> bytes]
             ELSE [self |-> [self EXCEPT !.responded = TRUE],
                   result |-> [tag |-> "Ok", kind |-> "", n |-> Len(Written(bytes, write))],
                   written |-> Written(bytes, write), wrote |-> TRUE, bytes |-> bytes]

(***************************************************************************)
(* The inputs of the model                                                 *)
(***************************************************************************)

\* The number of connections the accept loop takes.
MaxConns == 2
\* The number of respond calls the application makes on one Request.
MaxResponds == 2

WellFormed == <<"G","E","T"," ","/"," ","H","T","T","P","/","1",".","1","\r","\n","H","o","s","t",":"," ","x","\r","\n","\r","\n">>

\* Every truncation of a well-formed message, from no byte to all of them.
Truncations == {SubSeq(WellFormed, 1, n) : n \in 0..Len(WellFormed)}

Messages ==
    {<<"H","E","A","D"," ","/"," ","H","T","T","P","/","1",".","1","\r","\n","H","o","s","t",":"," ","x","\r","\n","A","c","c","e","p","t","-","E","n","c","o","d","i","n","g",":"," ","g","z","i","p","\r","\n","\r","\n">>,
     <<"G","E","T"," ","/","a"," ","H","T","T","P","/","1",".","1","\r","\n","H","o","s","t",":"," ","x","\r","\n","A","c","c","e","p","t","-","E","n","c","o","d","i","n","g",":"," ","g","z","i","p",","," ","b","r",";","q","=","1","\r","\n","\r","\n">>,
     <<"G","E","T"," ","/"," ","H","T","T","P","/","1",".","0","\r","\n","A","c","c","e","p","t","-","E","n","c","o","d","i","n","g",":"," ","*","\r","\n","\r","\n">>,
     <<"G","E","T"," ","/"," ","H","T","T","P","/","1",".","1","\r","\n","A","c","c","e","p","t","-","E","n","c","o","d","i","n","g",":"," ","g","z","i","p","\r","\n","A","c","c","e","p","t","-","E","n","c","o","d","i","n","g",":"," ","b","r","\r","\n","\r","\n">>,
     <<"h","e","a","d"," ","/","s","e","a","r","c","h","?","a","=","1","&","a","=","2"," ","H","T","T","P","/","1",".","1","\r","\n","h","o","s","t",":"," ","x","\r","\n","a","c","c","e","p","t","-","e","n","c","o","d","i","n","g",":"," ","d","e","f","l","a","t","e",";","q","=","0","\r","\n","\r","\n">>,
     <<"P","O","S","T"," ","/"," ","H","T","T","P","/","1",".","1","\r","\n","H","o","s","t",":"," ","x","\r","\n","C","o","n","t","e","n","t","-","L","e","n","g","t","h",":"," ","5","\r","\n","\r","\n","h","e","l","l","o">>,
     <<"G","E","T"," ","/"," ","H","T","T","P","/","1",".","1","\r","\n","M","a","l","f","o","r","m","e","d","\r","\n","\r","\n">>,
     <<"G","E","T"," ","/"," ","H","T","T","P","/","1",".","1","\r","\n","H","o","s","t",":"," ","x","\r","\n","M","a","l","f","o","r","m","e","d","\r","\n","\r","\n">>,
     <<"G","E","T"," ","/"," ","H","T","T","P","/","1",".","1","\r","\n","D","N","T",":"," ","2","\r","\n","M","a","l","f","o","r","m","e","d","\r","\n","\r","\n">>,
     <<"G","E","T"," ","/"," ","H","T","T","P","/","1",".","1","\r","\n","C","o","n","t","e","n","t","-","L","e","n","g","t","h",":"," ","a","b","c","\r","\n","\r","\n">>,
     <<"G","E","T"," ","/"," ","H","T","T","P","/","1",".","1","\r","\n","C","o","n","t","e","n","t","-","L","e","n","g","t","h",":"," ","-","1","\r","\n","\r","\n">>,
     <<"G","E","T"," ","/"," ","H","T","T","P","/","1",".","1","\r","\n","C","o","n","t","e","n","t","-","L","e","n","g","t","h",":"," ","\r","\n","\r","\n">>,
     <<"G","E","T"," ","/"," ","H","T","T","P","/","1",".","1","\r","\n","C","o","n","t","e","n","t","-","L","e","n","g","t","h",":"," ","1","8","4","4","6","7","4","4","0","7","3","7","0","9","5","5","1","6","1","6","\r","\n","\r","\n">>,
     <<"G","E","T"," ","/"," ","H","T","T","P","/","1",".","1","\r","\n","C","o","n","t","e","n","t","-","L","e","n","g","t","h",":"," ","1","8","4","4","6","7","4","4","0","7","3","7","0","9","5","5","1","6","1","5","\r","\n","\r","\n">>,
     <<"G","E","T"," ","/"," ","H","T","T","P","/","1",".","1","\r","\n","A","c","c","e","p","t","-","E","n","c","o","d","i","n","g",":"," ","z","i","p","\r","\n","\r","\n">>,
     <<"G","E","T"," ","/"," ","H","T","T","P","/","1",".","1","\r","\n","D","N","T",":"," ","2","\r","\n","\r","\n">>,
     <<"G","E","T"," ","/"," ","H","T","T","P","/","1",".","1","\r","\n","\r","\n">>}

\* The byte strings one read can deliver.
Buffers == Truncations \cup Messages

\* The I/O errors a read can return.
ReadErrors == {"ConnectionReset", "TimedOut"}

Statuses ==
    {[tag |-> "Ok"], [tag |-> "NoContent"], [tag |-> "SwitchingProtocols"],
     [tag |-> "Unknown", code |-> 204], [tag |-> "Unknown", code |-> 299],
     [tag |-> "Custom", code |-> 204, reason |-> <<"N","o","t","h","i","n","g">>],
     [tag |-> "Custom", code |-> 200, reason |-> <<"F","i","n","e">>]}

HeaderLists ==
    {<<>>,
     <<[kind |-> "ContentType", mime |-> Mime_new(<<"t","e","x","t">>, <<"p","l","a","i","n">>, None)],
       [kind |-> "Server", str |-> <<"J","u","l","M","a","n","-","H","t","t","p","/","1",".","0">>],
       [kind |-> "CacheControl", caches |-> <<[key |-> <<"n","o","-","s","t","o","r","e">>, keyed |-> FALSE, num |-> <<>>]>>]>>,
     <<[kind |-> "Unknown", name |-> <<"x","-","b">>, str |-> <<"1">>],
       [kind |-> "Date", str |-> <<"n","o","w">>],
       [kind |-> "Dnt", dnt |-> "PrefersNoTrack"],
       [kind |-> "ContentLength", num |-> <<"7">>]>>,
     <<[kind |-> "Unknown", name |-> <<"a","l","p","h","a">>, str |-> <<"1">>],
       [kind |-> "Unknown", name |-> <<"Z","e","t","a">>, str |-> <<"2">>],
       [kind |-> "ContentEncoding", encodings |-> <<"Gzip">>],
       [kind |-> "Location", str |-> <<"/">>]>>}

Bodies ==
    {[tag |-> "None"], [tag |-> "Text", text |-> <<"h","i">>], [tag |-> "Text", text |-> <<>>],
     [tag |-> "Text", text |-> <<"h", "U+00E9">>], [tag |-> "Binary", bytes |-> <<"0x00", "a", "b">>]}

Encodings ==
    {[encoding |-> None, level |-> None],
     [encoding |-> [tag |-> "Some", e |-> "Gzip"], level |-> None],
     [encoding |-> [tag |-> "Some", e |-> "Deflate"], level |-> [tag |-> "Some", n |-> 9]],
     [encoding |-> [tag |-> "Some", e |-> "Brotli"], level |-> None]}

\* The responses the application hands to respond.
Responses ==
    {[status |-> s, headers |-> h, body |-> b, encoding |-> e] :
        s \in Statuses, h \in HeaderLists, b \in Bodies, e \in Encodings}

(***************************************************************************)
(* The accept loop and the application                                     *)
(***************************************************************************)

VARIABLES
    pc,         \* "accept": main waits in Server::next; "handle": the
                \* application holds a Request; "aborted": the process is gone
    conns,      \* the connections taken so far
    last,       \* the last Server::next call: what the read gave, how it ended
    request,    \* the Request the application holds
    calls,      \* the respond calls made on it
    result,     \* what the last respond call returned
    sent,       \* the response and the serialization of the call that wrote
    wire,       \* the bytes the connection stream took
    writes,     \* the stream.write calls on it that returned Ok
    call,       \* the last call of a library function made on its own: the
                \* function, its arguments, what it returned
    params      \* the Query Params object that push and remove work on

vars == <<pc, conns, last, request, calls, result, sent, wire, writes, call, params>>

\* No library function has been called on its own.
NoLibCall == [fn |-> "None", tag |-> "None"]

NoCall == [tag |-> "None", kind |-> "", n |-> 0]

Init ==
    /\ pc = "accept"
    /\ conns = 0
    /\ last = [read |-> "None", buffer |-> <<>>, err |-> "", result |-> "None", returned |-> ""]
    /\ request = None
    /\ calls = 0
    /\ result = NoCall
    /\ sent = None
    /\ wire = <<>>
    /\ writes = 0
    /\ call = NoLibCall
    /\ params = SearchParams_empty

Idle == /\ request' = None /\ calls' = 0 /\ result' = NoCall /\ sent' = None
        /\ wire' = <<>> /\ writes' = 0

\* Server::next when listener.accept fails: Requests::next yields Some(None)
\* and main goes on to the next connection.
AcceptError ==
    /\ pc = "accept" /\ conns < MaxConns
    /\ conns' = conns + 1
    /\ pc' = "accept"
    /\ last' = [read |-> "NoConnection", buffer |-> <<>>, err |-> "", result |-> "Err", returned |-> "accept"]
    /\ Idle
    /\ UNCHANGED <<call, params>>

\* handle_connection when the read fails: the error is returned as it is.
ReadError(err) ==
    /\ pc = "accept" /\ conns < MaxConns
    /\ conns' = conns + 1
    /\ pc' = "accept"
    /\ last' = [read |-> "Err", buffer |-> <<>>, err |-> err, result |-> "Err", returned |-> err]
    /\ Idle
    /\ UNCHANGED <<call, params>>

\* Server::next when the read gives `buffer`: handle_connection parses it;
\* an abort ends the process, an error sends main to the next connection, a
\* Request goes to the application unless peer_addr fails in the log line.
Receive(buffer, peer_ok) ==
    /\ pc = "accept" /\ conns < MaxConns
    /\ conns' = conns + 1
    /\ \E r \in {handle_connection(buffer)} :
           /\ last' = [read |-> "Ok", buffer |-> buffer, err |-> "",
                       result |-> IF r.tag = "Ok" /\ ~peer_ok THEN "Err" ELSE r.tag,
                       returned |-> IF r.tag = "Ok" THEN (IF peer_ok THEN "" ELSE "peer_addr")
                                    ELSE IF r.tag = "Err" THEN "parse" ELSE ""]
           /\ pc' = IF r.tag = "Panic" THEN "aborted"
                    ELSE IF r.tag = "Ok" /\ peer_ok THEN "handle" ELSE "accept"
           /\ request' = IF r.tag = "Ok" /\ peer_ok THEN [tag |-> "Some", req |-> r.req] ELSE None
    /\ calls' = 0 /\ result' = NoCall /\ sent' = None /\ wire' = <<>> /\ writes' = 0
    /\ UNCHANGED <<call, params>>

\* A call on a Request that has responded returns before it reads its
\* argument: one response stands for all of them there.
ResponsesFor(req) == IF req.responded THEN {Response_empty} ELSE Responses

\* The application calls request.respond(response).
Respond(response, write) ==
    /\ pc = "handle" /\ calls < MaxResponds
    /\ \E r \in {respond(request.req, response, write)} :
           /\ request' = [tag |-> "Some", req |-> r.self]
           /\ result' = r.result
           /\ wire' = wire \o r.written
           /\ writes' = IF r.wrote THEN writes + 1 ELSE writes
           /\ sent' = IF r.wrote THEN [tag |-> "Some", response |-> response, bytes |-> r.bytes]
                      ELSE sent
    /\ calls' = calls + 1
    /\ UNCHANGED <<pc, conns, last, call, params>>

\* The application returns to main, which drops the Request and goes on to
\* the next connection.
Return ==
    /\ pc = "handle"
    /\ pc' = "accept"
    /\ Idle
    /\ UNCHANGED <<conns, last, call, params>>

Next ==
    \/ AcceptError
    \/ \E err \in ReadErrors : ReadError(err)
    \/ \E buffer \in Buffers, peer_ok \in BOOLEAN : Receive(buffer, peer_ok)
    \/ /\ pc = "handle"
       /\ \E response \in ResponsesFor(request.req), write \in WriteOutcomes :
              Respond(response, write)
    \/ Return

Spec == Init /\ [][Next]_vars

(***************************************************************************)
(* The library functions called on their own                               *)
(***************************************************************************)

\* These functions read nothing but their arguments, so each is called from
\* the initial state: what one call returns does not depend on the calls
\* before it.

\* The variables of the serving loop, which a library call leaves alone.
server == <<pc, conns, last, request, calls, result, sent, wire, writes>>

RECURSIVE SeqsUpTo(_, _)
\* The lists of at most n elements of S (the Vec values a caller can pass).
SeqsUpTo(S, n) ==
    IF n = 0 THEN {<<>>}
    ELSE SeqsUpTo(S, n - 1) \cup {Append(s, x) : s \in SeqsUpTo(S, n - 1), x \in S}

MaxEntries == 2
MaxItems == 2

\* The lists AcceptEncodings::new can be given: AcceptEncoding::new over
\* every encoding, with no weight, the weight 0 and the weight 1.
AcceptLists ==
    SeqsUpTo([encoding : {"Gzip", "Deflate", "Br", "All"},
              q : {None, [tag |-> "Some", n |-> 0], [tag |-> "Some", n |-> 1]}], MaxEntries)

\* Values of an Accept-Encoding header: comma-separated items, some with
\* weights, some blank, some with tokens the negotiator does not know.
AcceptValues ==
    {Join(l, <<",">>) :
        l \in SeqsUpTo({<<"g","z","i","p">>, <<" ","b","r",";","q","=","1">>, <<"d","e","f","l","a","t","e",";","q","=","0">>, <<"*">>, <<>>, <<" ">>, <<"z","i","p">>, <<"G","Z","I","P">>,
                        <<";","q","=","1">>, <<"g","z","i","p",";","q","=","x">>, <<"b","r"," ",";"," ","q","=","1">>}, MaxItems) \ {<<>>}}

\* AcceptEncodings::new(encs).accept(&encoding)
Accept(encs, encoding) ==
    /\ call = NoLibCall
    /\ call' = [fn |-> "AcceptEncodings::accept", tag |-> "Ok", encs |-> encs, encoding |-> encoding,
                ret |-> AcceptEncodings_accept(encs, encoding)]
    /\ UNCHANGED <<server, params>>

\* s.parse::<AcceptEncodings>(), and the same value on a header line that
\* handle_connection reads.
ParseAcceptEncoding(s) ==
    /\ call = NoLibCall
    /\ \E r \in {AcceptEncodings_from_str(s)} :
           call' = [fn |-> "AcceptEncodings::from_str", tag |-> IF r.ok THEN "Ok" ELSE "Err",
                    arg |-> s, ret |-> r,
                    line |-> ParseHeaderLine(<<"A","c","c","e","p","t","-","E","n","c","o","d","i","n","g",":"," ">> \o s)]
    /\ UNCHANGED <<server, params>>

MaxSegments == 3

\* Query texts: '&'-separated segments with and without the leading '?',
\* with repeated keys, percent-escapes, '+', and segments with no '=' or two.
Queries ==
    {lead \o Join(l, <<"&">>) :
        lead \in {<<>>, <<"?">>},
        l \in SeqsUpTo({<<"a","=","1">>, <<"b","=","2">>, <<"a","=">>, <<"a","+","b","=","%","2","B">>, <<"=">>, <<"k","=","%","F","F">>, <<"k","=","%","C","3","%","A","9">>, <<"a","=","%","2","6">>,
                        <<"a","=","b","=","c">>, <<>>}, MaxSegments)}

\* SearchParams::parse(s); on Ok the result is formatted with to_string and
\* the text is parsed again.
ParseQuery(s) ==
    /\ call = NoLibCall
    /\ \E r \in {SearchParams_parse(s)} :
           IF ~r.ok
           THEN call' = [fn |-> "SearchParams::parse", tag |-> "Err", arg |-> s, ret |-> r]
           ELSE \E text \in {SearchParams_to_string(r.params)} :
                    call' = [fn |-> "SearchParams::parse", tag |-> "Ok", arg |-> s, ret |-> r,
                             text |-> text,
                             again |-> IF text.tag = "Ok" THEN SearchParams_parse(text.str)
                                       ELSE [ok |-> FALSE]]
    /\ UNCHANGED <<server, params>>

MaxCookies == 2

\* RequestCookie::parse(raw)
ParseCookies(raw) ==
    /\ call = NoLibCall
    /\ call' = [fn |-> "RequestCookie::parse", tag |-> "Ok", arg |-> raw, ret |-> RequestCookie_parse(raw)]
    /\ UNCHANGED <<server, params>>

\* Header::Cookie(cookies).to_string(), and RequestCookie::parse of the value
\* on that line: what stands between "Cookie: " and the line terminator.
FormatCookies(cookies) ==
    /\ call = NoLibCall
    /\ \E line \in {Header_to_string([kind |-> "Cookie", cookies |-> cookies])} :
           call' = [fn |-> "Header::to_string(Cookie)", tag |-> "Ok", cookies |-> cookies, line |-> line,
                    parsed |-> RequestCookie_parse(SubSeq(line, Len(<<"C","o","o","k","i","e",":"," ">>) + 1, Len(line) - 2))]
    /\ UNCHANGED <<server, params>>

\* header.to_string() and header.name()
FormatHeader(header) ==
    /\ call = NoLibCall
    /\ call' = [fn |-> "Header::to_string", tag |-> "Ok", header |-> header,
                name |-> Header_name(header), line |-> Header_to_string(header)]
    /\ UNCHANGED <<server, params>>

\* One header line as handle_connection reads it, and to_string of the
\* header it stored.
ParseLine(line) ==
    /\ call = NoLibCall
    /\ \E r \in {ParseHeaderLine(line)} :
           call' = [fn |-> "handle_connection(header)", tag |-> r.tag, arg |-> line, ret |-> r,
                    line |-> IF r.tag = "Ok" THEN Header_to_string(r.h) ELSE <<>>]
    /\ UNCHANGED <<server, params>>

\* Status::from_code(code)
FromCode(code) ==
    /\ call = NoLibCall
    /\ call' = [fn |-> "Status::from_code", tag |-> "Ok", code |-> code, ret |-> Status_from_code(code)]
    /\ UNCHANGED <<server, params>>

\* handle_connection(stream) when the read gives the bytes of buffer.
ReadRequest(buffer) ==
    /\ call = NoLibCall
    /\ \E r \in {handle_connection(buffer)} :
           call' = [fn |-> "handle_connection", tag |-> r.tag, arg |-> buffer, ret |-> r]
    /\ UNCHANGED <<server, params>>

\* Mime::parse(raw), and the same text as the value of a Content-Type line
\* that handle_connection reads.
ParseMime(raw) ==
    /\ call = NoLibCall
    /\ \E r \in {Mime_parse(raw)} :
           call' = [fn |-> "Mime::parse", tag |-> r.tag, arg |-> raw, ret |-> r,
                    line |-> ParseHeaderLine(<<"C","o","n","t","e","n","t","-","T","y","p","e",":"," ">> \o raw)]
    /\ UNCHANGED <<server, params>>

MaxCaches == 2

\* Cache::format(&vec), and Cache::parse of the text it gives.
FormatCache(vec) ==
    /\ call = NoLibCall
    /\ \E text \in {Cache_format(vec)} :
           call' = [fn |-> "Cache::format", tag |-> "Ok", vec |-> vec, text |-> text,
                    parsed |-> Cache_parse(text)]
    /\ UNCHANGED <<server, params>>

LibNext ==
    \/ \E encs \in AcceptLists, encoding \in {"Gzip", "Deflate", "Brotli"} : Accept(encs, encoding)
    \/ \E s \in AcceptValues : ParseAcceptEncoding(s)
    \/ \E s \in Queries : ParseQuery(s)
    \/ \E l \in SeqsUpTo({<<"a","=","b">>, <<"s","i","d","=","x","%","2","0","y">>, <<"a","=","b","=","c">>, <<"t","=","Y","Q","=","=">>, <<"=","v">>, <<"n","o","v","a","l","u","e">>, <<"k","=","%","F","F">>, <<"a","=">>,
                          <<>>}, MaxCookies) \ {<<>>} :
           ParseCookies(Join(l, <<";"," ">>))
    \/ \E cookies \in SeqsUpTo([name : {<<"a">>, <<"s","i","d">>}, value : {<<"b">>, <<"x"," ","y">>, <<"%","4","1">>, <<>>}], MaxCookies) :
           FormatCookies(cookies)
    \/ \E header \in
           [kind : TextHeaderKinds, str : {<<"v">>}]
               \cup [kind : {"Connection", "ProxyConnection"},
                     conn : {ParseConnection(<<"k","e","e","p","-","a","l","i","v","e">>), ParseConnection(<<"O","t","h","e","r">>)}]
               \cup [kind : {"Dnt"}, dnt : {"PrefersAllowTrack", "PrefersNoTrack", "NotSpecified"}]
               \cup [kind : {"ContentEncoding"}, encodings : {<<>>, <<"Gzip">>, <<"Gzip", "Brotli">>}]
               \cup [kind : {"Unknown"}, name : {<<"X","-","C","u","s","t","o","m">>, <<"x","-","b">>}, str : {<<"v">>, <<>>}]
               \cup [kind : {"Cookie"}, cookies : {<<>>, <<[name |-> <<"a">>, value |-> <<"b">>]>>}]
               \cup {[kind |-> "ContentLength", num |-> <<"7">>],
                     [kind |-> "SetCookie",
                      cookie |-> [name |-> <<"s","i","d">>, value |-> <<"1">>, max_age |-> None, expires |-> None,
                                  path |-> [tag |-> "Some", str |-> <<"/">>], domain |-> None,
                                  secure |-> TRUE, http_only |-> FALSE]],
                     [kind |-> "ContentType", mime |-> Mime_new(<<"t","e","x","t">>, <<"p","l","a","i","n">>, None)],
                     [kind |-> "AcceptEncoding", encs |-> <<[encoding |-> "Gzip", q |-> None]>>],
                     [kind |-> "CacheControl",
                      caches |-> <<[key |-> <<"n","o","-","s","t","o","r","e">>, keyed |-> FALSE, num |-> <<>>]>>],
                     [kind |-> "Pragma", cache |-> [key |-> <<"n","o","-","c","a","c","h","e">>, keyed |-> FALSE, num |-> <<>>]]} :
           FormatHeader(header)
    \/ \E line \in {<<"X","-","C","u","s","t","o","m",":"," ","v">>, <<"x","-","l","o","w","e","r",":"," ","v">>, <<"X","-","T","r","a","c","e","-","I","d",":"," ","A","b","C">>, <<"X","-","E","m","p","t","y",":"," ">>, <<"H","o","s","t",":"," ","h">>,
                    <<"A","C","C","E","P","T",":"," ","*","/","*">>, <<"X","-","C","u","s","t","o","m">>} :
           ParseLine(line)
    \/ \E code \in (100..103) \cup (200..207) \cup (300..305) \cup (400..418) \cup (500..506) :
           FromCode(code)
    \/ \E buffer \in
           {<<"G","E","T"," ","h","t","t","p",":","/","/","h","/","a","/","b","?","x","=","1"," ","H","T","T","P","/","1",".","1","\r","\n","H","o","s","t",":"," ","o","t","h","e","r","\r","\n","\r","\n">>,
            <<"G","E","T"," ","h","t","t","p",":","/","/","h","/","a","?","x","=","1"," ","H","T","T","P","/","1",".","1","\r","\n","H","o","s","t",":"," ","o","t","h","e","r","\r","\n","\r","\n">>,
            <<"G","E","T"," ","h","t","t","p","s",":","/","/","h","/","a","%","2","0","b"," ","H","T","T","P","/","1",".","1","\r","\n","U","s","e","r","-","A","g","e","n","t",":"," ","t","\r","\n","\r","\n">>,
            <<"G","E","T"," ","h","t","t","p","s",":","/","/","h","/","a"," ","H","T","T","P","/","1",".","1","\r","\n","U","s","e","r","-","A","g","e","n","t",":"," ","t","\r","\n","\r","\n">>,
            <<"G","E","T"," ","h","t","t","p",":","/","/","h"," ","H","T","T","P","/","1",".","1","\r","\n","H","o","s","t",":"," ","o","t","h","e","r","\r","\n","\r","\n">>,
            <<"G","E","T"," ","/","p","%","2","0","q","/","r","?","x","=","1","&","x","=","2"," ","H","T","T","P","/","1",".","1","\r","\n","H","o","s","t",":"," ","h","\r","\n","\r","\n">>,
            <<"G","E","T"," ","/","p"," ","H","T","T","P","/","1",".","1","\r","\n","H","o","s","t",":"," ","h","\r","\n","H","o","s","t",":"," ","k","\r","\n","\r","\n">>,
            <<"P","O","S","T"," ","/"," ","H","T","T","P","/","1",".","1","\r","\n","H","o","s","t",":"," ","x","\r","\n","\r","\n","a","b">>,
            <<"P","O","S","T"," ","/"," ","H","T","T","P","/","1",".","1","\r","\n","H","o","s","t",":"," ","x","\r","\n","\r","\n","a","b","\r","\n","\r","\n","c","d">>,
            <<"P","O","S","T"," ","/"," ","H","T","T","P","/","1",".","1","\r","\n","H","o","s","t",":"," ","x","\r","\n","\r","\n","\r","\n","\r","\n">>,
            <<"G","E","T"," ","/"," ","H","T","T","P","/","1",".","1","\r","\n","H","o","s","t",":"," ","x","\r","\n","U","s","e","r","-","A","g","e","n","t",":"," ","a",":"," ","b","\r","\n","\r","\n">>,
            <<"G","E","T"," ","/"," ","H","T","T","P","/","1",".","1","\r","\n","H","o","s","t",":"," ","x","\r","\n","X","-","N","o","t","e",":"," ","a",":"," ","b",":"," ","c","\r","\n","\r","\n">>,
            <<"G","E","T"," ","/"," ","H","T","T","P","/","1",".","1","\r","\n","H","o","s","t",":"," ","x","\r","\n","P","r","a","g","m","a",":"," ","n","o","-","c","a","c","h","e","\r","\n","\r","\n">>,
            <<"G","E","T"," ","/"," ","H","T","T","P","/","1",".","1","\r","\n","H","o","s","t",":"," ","x","\r","\n","P","r","a","g","m","a",":"," ","f","o","o","\r","\n","U","s","e","r","-","A","g","e","n","t",":"," ","t","\r","\n","\r","\n">>,
            <<"G","E","T"," ","/"," ","H","T","T","P","/","1",".","1","\r","\n","H","o","s","t",":"," ","x","\r","\n","C","a","c","h","e","-","C","o","n","t","r","o","l",":"," ","f","o","o",","," ","n","o","-","s","t","o","r","e","\r","\n","U","s","e","r","-","A","g","e","n","t",":"," ","t","\r","\n","\r","\n">>,
            <<"G","E","T"," ","/"," ","H","T","T","P","/","1",".","1","\r","\n","H","o","s","t",":"," ","x","\r","\n","C","o","n","t","e","n","t","-","T","y","p","e",":"," ","t","e","x","t","/","h","t","m","l","\r","\n","\r","\n">>,
            <<"G","E","T"," ","/"," ","H","T","T","P","/","1",".","1","\r","\n","H","o","s","t",":"," ","x","\r","\n","C","o","n","t","e","n","t","-","T","y","p","e",":"," ","t","e","x","t","/","h","t","m","l",";","c","h","a","r","s","e","t","=","u","t","f","-","8","\r","\n","\r","\n">>,
            <<"G","E","T"," ","/"," ","H","T","T","P","/","1",".","1","\r","\n","H","o","s","t",":"," ","x","\r","\n","C","o","n","t","e","n","t","-","T","y","p","e",":"," ","t","e","x","t","\r","\n","\r","\n">>,
            <<"G","E","T"," ","/"," ","H","T","T","P","/","1",".","1","\r","\n","H","o","s","t",":"," ","x","\r","\n","C","o","n","t","e","n","t","-","T","y","p","e",":"," ","t","e","x","t","/","h","t","m","l",";","\r","\n","\r","\n">>,
            <<"G","E","T"," ","/"," ","H","T","T","P","/","1",".","1","\r","\n","H","o","s","t",":"," ","x","\r","\n","C","o","n","t","e","n","t","-","T","y","p","e",":"," ","t","e","x","t","/","h","t","m","l",";","c","h","a","r","s","e","t","\r","\n","\r","\n">>,
            <<"G","E","T"," ","/"," ","H","T","T","P","/","1",".","1","\r","\n","\r","\n">>,
            <<"P","O","S","T"," ","/"," ","H","T","T","P","/","1",".","1","\r","\n","\r","\n","a","b">>} :
           ReadRequest(buffer)
    \/ \E raw \in {<<"t","e","x","t","/","h","t","m","l">>, <<"t","e","x","t","/","h","t","m","l",";","c","h","a","r","s","e","t","=","u","t","f","-","8">>, <<"x","-","a","/","b",";","k","=","v">>, <<"t","e","x","t">>, <<>>, <<"t","e","x","t","/","h","t","m","l",";">>,
                   <<"t","e","x","t","/","h","t","m","l",";","c","h","a","r","s","e","t">>, <<"t","e","x","t","/","h","t","m","l",";","a","=","b",";","c">>, <<"a","/","b","/","c">>} :
           ParseMime(raw)
    \/ \E vec \in SeqsUpTo({[key |-> <<"n","o","-","s","t","o","r","e">>, keyed |-> FALSE, num |-> <<>>],
                            [key |-> <<"o","n","l","y","-","i","f","-","c","a","c","h","e","d">>, keyed |-> FALSE, num |-> <<>>],
                            [key |-> <<"m","a","x","-","a","g","e">>, keyed |-> TRUE, num |-> <<"6","0">>],
                            [key |-> <<"m","i","n","-","f","r","e","s","h">>, keyed |-> TRUE, num |-> <<"0">>]}, MaxCaches) :
           FormatCache(vec)

LibSpec == Init /\ [][LibNext]_vars

(***************************************************************************)
(* A caller holding one SearchParams                                       *)
(***************************************************************************)

MaxValues == 2
MaxStored == 4

\* values = SearchParams::parse(s)?: the caller keeps the result.
Parse(s) ==
    /\ call.tag # "Panic"
    /\ \E r \in {SearchParams_parse(s)} :
           /\ call' = [fn |-> "SearchParams::parse", tag |-> IF r.ok THEN "Ok" ELSE "Err", arg |-> s]
           /\ params' = IF r.ok THEN r.params ELSE params
    /\ UNCHANGED server

\* params.push(data), while params holds fewer than MaxStored values:
\* data.value()[0] panics when the key is present and data has no value.
Push(data) ==
    /\ call.tag # "Panic"
    /\ Len(Join([i \in 1..Len(params) |-> params[i].value], <<>>)) < MaxStored
    /\ IF data.value = <<>> /\ \E i \in 1..Len(params) : params[i].name = data.name
       THEN /\ call' = [fn |-> "SearchParams::push", tag |-> "Panic", before |-> params, data |-> data]
            /\ UNCHANGED params
       ELSE /\ call' = [fn |-> "SearchParams::push", tag |-> "Ok", before |-> params, data |-> data]
            /\ params' = SearchParams_push(params, data)
    /\ UNCHANGED server

\* params.remove(name)
Remove(name) ==
    /\ call.tag # "Panic"
    /\ \E r \in {SearchParams_remove(params, name)} :
           /\ call' = [fn |-> "SearchParams::remove", tag |-> r.tag, before |-> params, name |-> name]
           /\ params' = IF r.tag = "Ok" THEN r.params ELSE params
    /\ UNCHANGED server

\* The caller parses "a=1&b=2&a=3" and the like, then pushes
\* SearchParam::new(name, value) and removes by name.
QueryNext ==
    \/ \E s \in {<<"a","=","1","&","b","=","2","&","a","=","3">>, <<"?","b","=","2","&","%","6","1","=","1">>, <<"a","=","1">>, <<"a","=","1","&","a">>, <<>>} : Parse(s)
    \/ \E data \in [name : {<<"a">>, <<"c">>}, value : SeqsUpTo({<<"2">>, <<"3">>}, MaxValues)] : Push(data)
    \/ \E name \in {<<"a">>, <<"b">>, <<"c">>} : Remove(name)

QuerySpec == Init /\ [][QueryNext]_vars

(***************************************************************************)
(* Properties                                                              *)
(***************************************************************************)

\* C1: once a respond call on a Request has returned Ok, every later respond
\* call on that Request returns an error and the stream takes no byte from
\* it; over all the calls on one connection at most one write succeeds.
C1_RespondOnce ==
    [][/\ writes' <= 1
       /\ (pc = "handle" /\ writes >= 1 /\ calls' = calls + 1)
              => (result'.tag = "Err" /\ wire' = wire /\ writes' = writes)]_vars

\* A second respond call was made after one that wrote, and was refused.
C1_Witness ==
    /\ pc = "handle" /\ calls = 2 /\ writes = 1 /\ wire # <<>>
    /\ result.tag = "Err" /\ result.kind = "AlreadyResponded"

\* C2: the responded flag is false on the Request the parser returns, turns
\* true only in a respond call whose write returned Ok (a call whose write
\* fails leaves it as it was), and never turns false again.
C2_RespondedFlag ==
    [][/\ (request.tag = "None" /\ request'.tag = "Some") => ~request'.req.responded
       /\ (request.tag = "Some" /\ request'.tag = "Some") =>
              /\ request.req.responded => request'.req.responded
              /\ (~request.req.responded /\ request'.req.responded)
                     => (calls' = calls + 1 /\ result'.tag = "Ok" /\ writes' = writes + 1)
              /\ (calls' = calls + 1 /\ result'.tag = "Err")
                     => (request'.req.responded = request.req.responded)]_vars

\* A first call whose write failed left the flag false, the second call wrote
\* and set it.
C2_Witness ==
    /\ request.tag = "Some" /\ request.req.responded
    /\ calls = 2 /\ writes = 1 /\ result.tag = "Ok"

\* The request line is not complete in the buffer: no space after the
\* method, no space after the target, no CR after the version, or nothing
\* after the CR.
RequestLineIncomplete(buffer) ==
    LET sp1 == Find(buffer, <<" ">>)
        sp2 == IF sp1 = 0 THEN 0 ELSE FindFrom(buffer, <<" ">>, sp1 + 1)
        cr == IF sp2 = 0 THEN 0 ELSE FindFrom(buffer, <<"\r">>, sp2 + 1)
    IN  sp1 = 0 \/ sp2 = 0 \/ cr = 0 \/ cr = Len(buffer)

\* The lines of the header block of a message whose request line is
\* complete: what lies between the end of the request line and the first
\* blank line.
HeaderBlockLines(buffer) ==
    LET eol == Find(buffer, <<"\r","\n">>)
        after == SubSeq(buffer, eol + 2, Len(buffer))
    IN  Split(Split(after, <<"\r","\n","\r","\n">>)[1], <<"\r","\n">>)

\* Some line of the header block has text and no ": ".
HasUnseparatedLine(buffer) ==
    /\ ~RequestLineIncomplete(buffer)
    /\ \E i \in 1..Len(HeaderBlockLines(buffer)) :
           /\ HeaderBlockLines(buffer)[i] # <<>>
           /\ ~Contains(HeaderBlockLines(buffer)[i], <<":"," ">>)

\* Some Content-Length line carries a value that is no unsigned 64-bit
\* integer.
HasBadContentLength(buffer) ==
    /\ ~RequestLineIncomplete(buffer)
    /\ \E i \in 1..Len(HeaderBlockLines(buffer)) :
           LET line == HeaderBlockLines(buffer)[i]
               at == Find(line, <<":"," ">>)
           IN  /\ at # 0
               /\ to_lowercase(SubSeq(line, 1, at - 1)) = <<"c","o","n","t","e","n","t","-","l","e","n","g","t","h">>
               /\ ~ParseU64(SubSeq(line, at + 2, Len(line))).ok

\* C3: a header line without ": " makes handle_connection return an error
\* for the message; the process is not aborted and no Request is returned.
C3_UnseparatedLineIsError ==
    (last.read = "Ok" /\ HasUnseparatedLine(last.buffer))
        => (last.result = "Err" /\ pc # "aborted" /\ request.tag = "None")

\* C4: a Content-Length value that is no unsigned integer makes
\* handle_connection return an error; the process is not aborted.
C4_BadContentLengthIsError ==
    (last.read = "Ok" /\ HasBadContentLength(last.buffer))
        => (last.result = "Err" /\ pc # "aborted")

\* C5: a read of zero bytes, or of bytes that end before the request line is
\* complete, makes handle_connection return an error without aborting the
\* process; an I/O error of the read is returned as it is.
C5_IncompleteRequestLineIsError ==
    /\ (last.read = "Ok" /\ RequestLineIncomplete(last.buffer))
           => (last.result = "Err" /\ pc # "aborted")
    /\ last.read = "Err" => (last.result = "Err" /\ last.returned = last.err)

\* C6: no error is fatal to the process: whatever a connection delivered,
\* the accept loop is still there to take the next one.
C6_NoErrorIsFatal == pc # "aborted"

\* The status carries the code 204, under any variant.
Is204(status) ==
    \/ status.tag = "NoContent"
    \/ status.tag \in {"Unknown", "Custom"} /\ status.code = 204

\* The bytes of the serialized response after the blank line.
BodyOnWire ==
    SubSeq(sent.bytes, Len(ResponseHead(sent.response, request.req)) + 1, Len(sent.bytes))

\* C7: body bytes follow the blank line only if the request method is not
\* HEAD and the status code is not 204, whatever body the response declares.
C7_NoBodyForHeadAnd204 ==
    sent.tag = "Some" =>
        \A head \in {ResponseHead(sent.response, request.req)} :
            /\ SubSeq(sent.bytes, 1, Len(head)) = head
            /\ SubSeq(head, Len(head) - 1, Len(head)) = <<"\r","\n">>
            /\ Len(sent.bytes) > Len(head) =>
                   (request.req.method.name # <<"H","E","A","D">> /\ ~Is204(sent.response.status))

\* A response with a text body and the code 204 under the Custom variant
\* was serialized for a request that is not HEAD, and another case below.
C7_Witness ==
    /\ sent.tag = "Some"
    /\ sent.response.status.tag = "Custom" /\ sent.response.status.code = 204
    /\ sent.response.body.tag = "Text" /\ sent.response.body.text # <<>>
    /\ request.req.method.name = <<"G","E","T">>

\* The header lines of the serialized response, as (name, value) pairs read
\* from the bytes between the status line and the blank line.
WireHeaders ==
    LET start == Len(StatusLine(sent.response, request.req))
        end == Len(ResponseHead(sent.response, request.req)) - 2
        Pairs(lines) ==
            [i \in 1..Len(lines) |->
                LET at == Find(lines[i], <<":"," ">>)
                IN  [name |-> SubSeq(lines[i], 1, at - 1),
                     value |-> SubSeq(lines[i], at + 2, Len(lines[i]))]]
    IN  Pairs(SelectSeq(Split(SubSeq(sent.bytes, start + 1, end), <<"\r","\n">>), LAMBDA l : l # <<>>))

\* C8: the header lines of every serialized response are in non-decreasing
\* case-sensitive order of their names, a computed Content-Length and an
\* added Content-Encoding among them.
C8_HeadersSorted ==
    sent.tag = "Some" =>
        \A wh \in {WireHeaders} :
            \A i, j \in 1..Len(wh) : i < j => StrLeq(wh[i].name, wh[j].name)

\* The application added its headers out of order, and the serializer added
\* Content-Length and Content-Encoding.
C8_Witness ==
    /\ sent.tag = "Some"
    /\ ~has_content_length(sent.response.headers)
    /\ \E i, j \in 1..Len(sent.response.headers) :
           i < j /\ StrLess(Header_name(sent.response.headers[j]), Header_name(sent.response.headers[i]))
    /\ \E wh \in {WireHeaders} :
           /\ \E i \in 1..Len(wh) : wh[i].name = <<"C","o","n","t","e","n","t","-","L","e","n","g","t","h">>
           /\ \E i \in 1..Len(wh) : wh[i].name = <<"C","o","n","t","e","n","t","-","E","n","c","o","d","i","n","g">>

\* The values of the Content-Length lines on the wire, and of the
\* Content-Length headers the application gave.
WireContentLengths ==
    LET at == SelectSeq(WireHeaders, LAMBDA h : h.name = <<"C","o","n","t","e","n","t","-","L","e","n","g","t","h">>)
    IN  [i \in 1..Len(at) |-> at[i].value]
GivenContentLengths ==
    LET at == SelectSeq(sent.response.headers, LAMBDA h : h.kind = "ContentLength")
    IN  [i \in 1..Len(at) |-> at[i].num]

\* C9: without a Content-Length header in the response the serializer
\* emits exactly one, carrying the length of the body, for a Text or Binary
\* body and none for no body; with one it adds none and keeps the value.
C9_ContentLength ==
    sent.tag = "Some" =>
        WireContentLengths =
            IF GivenContentLengths # <<>> THEN GivenContentLengths
            ELSE IF sent.response.body.tag = "Text"
                 THEN <<FormatNat(Len(Utf8(sent.response.body.text)))>>
            ELSE IF sent.response.body.tag = "Binary"
                 THEN <<FormatNat(Len(sent.response.body.bytes))>>
            ELSE <<>>

\* The application gave a Content-Length that is not the length of its text
\* body, and the serializer kept it.
C9_Witness ==
    /\ sent.tag = "Some"
    /\ GivenContentLengths = <<<<"7">>>>
    /\ sent.response.body.tag = "Text"
    /\ WireContentLengths = <<<<"7">>>>

\* An Accept-Encoding entry names the encoding or is the wildcard.
Names(entry, e) ==
    \/ entry.encoding = "All"
    \/ entry.encoding = (CASE e = "Gzip" -> "Gzip" [] e = "Deflate" -> "Deflate" [] e = "Brotli" -> "Br")

\* The Accept-Encoding headers of the request, in order.
AcceptEncodingHeaders == SelectSeq(request.req.headers, LAMBDA h : h.kind = "AcceptEncoding")

\* The number of Content-Encoding lines on the wire beyond those the
\* application gave.
ContentEncodingsAdded ==
    Len(SelectSeq(WireHeaders, LAMBDA h : h.name = <<"C","o","n","t","e","n","t","-","E","n","c","o","d","i","n","g">>))
        - Len(SelectSeq(sent.response.headers, LAMBDA h : h.kind = "ContentEncoding"))

\* The body of the response through the codec of its encoding directive.
EncodedBody ==
    Encode(sent.response.encoding.encoding.e, sent.response.encoding.level, BodyData(sent.response)).data

Reverse(s) == [i \in 1..Len(s) |-> s[Len(s) + 1 - i]]

\* C11: AcceptEncodings::accept is true exactly when some entry of the list
\* names the candidate or is the wildcard; the weights of the entries and
\* their order do not change the result, and the empty list accepts nothing.
C11_AcceptIsMembership ==
    call.fn = "AcceptEncodings::accept" =>
        /\ call.ret = (\E i \in 1..Len(call.encs) : Names(call.encs[i], call.encoding))
        /\ call.ret = AcceptEncodings_accept([i \in 1..Len(call.encs) |-> [call.encs[i] EXCEPT !.q = None]],
                                             call.encoding)
        /\ call.ret = AcceptEncodings_accept(Reverse(call.encs), call.encoding)
        /\ call.encs = <<>> => ~call.ret

\* A list whose only entry that names the candidate has the weight 0, after
\* an entry that does not name it, was asked and accepted.
C11_Witness ==
    /\ call.fn = "AcceptEncodings::accept" /\ call.ret
    /\ Len(call.encs) = 2
    /\ ~Names(call.encs[1], call.encoding)
    /\ call.encs[2].encoding = "Br" /\ call.encs[2].q = [tag |-> "Some", n |-> 0]

\* The items of an Accept-Encoding value that are not blank, trimmed, and
\* the encoding token of an item: what stands before its first ';'.
ItemsOf(s) == SelectSeq([i \in 1..Len(Split(s, <<",">>)) |-> Trim(Split(s, <<",">>)[i])], LAMBDA x : x # <<>>)
TokenOf(item) == Trim(Split(item, <<";">>)[1])
KnownTokens == [Gzip |-> <<"g","z","i","p">>, Deflate |-> <<"d","e","f","l","a","t","e">>, Br |-> <<"b","r">>, All |-> <<"*">>]

\* C12: parsing an Accept-Encoding value fails as a whole when an item that
\* is not blank has a token other than gzip, deflate, br or *, and then the
\* request parse returns an error; otherwise it gives one entry per such
\* item, in the order of the input.
C12_StrictParse ==
    call.fn = "AcceptEncodings::from_str" =>
        \A items \in {ItemsOf(call.arg)} :
            IF \E i \in 1..Len(items) : \A k \in DOMAIN KnownTokens : TokenOf(items[i]) # KnownTokens[k]
            THEN ~call.ret.ok /\ call.line.tag = "Err"
            ELSE /\ call.ret.ok
                 /\ Len(call.ret.encs) = Len(items)
                 /\ \A i \in 1..Len(items) : KnownTokens[call.ret.encs[i].encoding] = TokenOf(items[i])
                 /\ call.line.tag = "Ok" /\ call.line.h.kind = "AcceptEncoding"
                 /\ call.line.h.encs = call.ret.encs

\* A value with a known token before an unknown one failed as a whole.
C12_Witness ==
    /\ call.fn = "AcceptEncodings::from_str"
    /\ call.arg = <<"g","z","i","p",",","z","i","p">>
    /\ ~call.ret.ok /\ call.line.tag = "Err"

\* The keys of a Query Params in entry order, and the text of a query
\* without its leading '?', cut at each '&'.
KeysOf(values) == [i \in 1..Len(values) |-> values[i].name]
SegmentsOf(s) == Split(IF s # <<>> /\ s[1] = "?" THEN Tail(s) ELSE s, <<"&">>)

\* C13: no two entries of the Query Params have the same key after parse and
\* after any push and remove; parse leaves the keys in the order in which
\* they were first seen with each key's values in the order of the input; a
\* push for a key already present appends the value to the end of that
\* entry's list and moves no entry, a push for a new key adds the entry at
\* the end, and remove takes out one entry and keeps the others in place.
C13_UniqueKeys ==
    /\ \A i, j \in 1..Len(params) : params[i].name = params[j].name => i = j
    /\ call.fn = "SearchParams::parse" /\ call.tag = "Ok" =>
           \A segs \in {SegmentsOf(call.arg)} :
               /\ \A i \in 1..Len(params) :
                      params[i].value =
                          [k \in 1..Len(SelectSeq(segs, LAMBDA g : DecodeOrKeep(Split(g, <<"=">>)[1]) = params[i].name))
                              |-> DecodeOrKeep(Split(SelectSeq(segs, LAMBDA g :
                                      DecodeOrKeep(Split(g, <<"=">>)[1]) = params[i].name)[k], <<"=">>)[2])]
               /\ \A i, j \in 1..Len(params) :
                      i < j =>
                          \E a \in 1..Len(segs) :
                              /\ DecodeOrKeep(Split(segs[a], <<"=">>)[1]) = params[i].name
                              /\ \A b \in 1..a : DecodeOrKeep(Split(segs[b], <<"=">>)[1]) # params[j].name
               /\ \A a \in 1..Len(segs) :
                      \E i \in 1..Len(params) : params[i].name = DecodeOrKeep(Split(segs[a], <<"=">>)[1])
    /\ call.fn = "SearchParams::push" /\ call.tag = "Ok" =>
           IF \E i \in 1..Len(call.before) : call.before[i].name = call.data.name
           THEN /\ KeysOf(params) = KeysOf(call.before)
                /\ \A i \in 1..Len(params) :
                       params[i].value = IF params[i].name = call.data.name
                                         THEN Append(call.before[i].value, call.data.value[1])
                                         ELSE call.before[i].value
           ELSE params = Append(call.before, call.data)
    /\ call.fn = "SearchParams::remove" /\ call.tag = "Ok" =>
           params = SelectSeq(call.before, LAMBDA e : e.name # call.name)

\* "a=1&b=2&a=3" was parsed into a -> [1, 3] then b -> [2], and a value was
\* then pushed for the key a.
C13_Witness ==
    /\ call.fn = "SearchParams::push" /\ call.tag = "Ok"
    /\ call.before = <<[name |-> <<"a">>, value |-> <<<<"1">>, <<"3">>>>], [name |-> <<"b">>, value |-> <<<<"2">>>>]>>
    /\ call.data = [name |-> <<"a">>, value |-> <<<<"2">>>>]
    /\ params = <<[name |-> <<"a">>, value |-> <<<<"1">>, <<"3">>, <<"2">>>>], [name |-> <<"b">>, value |-> <<<<"2">>>>]>>

\* C14: for every query text that SearchParams::parse accepts, to_string of
\* the result is a text that parse accepts and that gives the same keys in
\* the same order with the same value lists.
C14_QueryRoundTrip ==
    call.fn = "SearchParams::parse" /\ call.tag = "Ok" /\ "again" \in DOMAIN call =>
        /\ call.text.tag = "Ok"
        /\ call.again.ok
        /\ call.again.params = call.ret.params

\* A text with a repeated key, an escaped '&' and a '+' went round.
C14_Witness ==
    /\ call.fn = "SearchParams::parse" /\ call.tag = "Ok" /\ "again" \in DOMAIN call
    /\ call.arg = <<"?","a","=","%","2","6","&","a","+","b","=","%","2","B","&","a","=","1">>
    /\ call.ret.params = <<[name |-> <<"a">>, value |-> <<<<"&">>, <<"1">>>>], [name |-> <<"a"," ","b">>, value |-> <<<<" ">>>>]>>
    /\ call.text.str = <<"?","a","=","%","2","6","&","a","=","1","&","a","%","2","0","b","=","%","2","0">>

\* C15: SearchParams::parse returns an error that carries no Query Params
\* whenever a segment of the input, cut at '&' after one leading '?' is
\* taken off, does not have exactly one '='; with exactly one '=' in every
\* segment it succeeds.
C15_SegmentNeedsOneEquals ==
    call.fn = "SearchParams::parse" /\ "ret" \in DOMAIN call =>
        \A segs \in {SegmentsOf(call.arg)} :
            IF \E a \in 1..Len(segs) : Cardinality({k \in 1..Len(segs[a]) : segs[a][k] = "="}) # 1
            THEN call.tag = "Err" /\ call.ret = [ok |-> FALSE]
            ELSE call.tag = "Ok" /\ call.ret.ok

\* The text "a=1&", whose last segment is empty, was refused.
C15_Witness ==
    /\ call.fn = "SearchParams::parse" /\ "ret" \in DOMAIN call
    /\ call.arg = <<"a","=","1","&">>
    /\ call.tag = "Err"

\* C16: RequestCookie::parse cuts the value at each "; " and each segment at
\* its first '='; it fails as a whole when a segment has no '=', an empty
\* name or a value that does not percent-decode, and otherwise returns every
\* cookie in order, a value that itself holds '=' among them.
C16_SplitAtFirstEquals ==
    call.fn = "RequestCookie::parse" =>
        \A segs \in {Split(call.arg, <<";"," ">>)} :
            IF \E i \in 1..Len(segs) :
                   \/ Find(segs[i], <<"=">>) <= 1
                   \/ ~decode(SubSeq(segs[i], Find(segs[i], <<"=">>) + 1, Len(segs[i]))).ok
            THEN ~call.ret.ok
            ELSE /\ call.ret.ok
                 /\ call.ret.cookies =
                        [i \in 1..Len(segs) |->
                            [name |-> SubSeq(segs[i], 1, Find(segs[i], <<"=">>) - 1),
                             value |-> decode(SubSeq(segs[i], Find(segs[i], <<"=">>) + 1, Len(segs[i]))).str]]

\* C17: a list of request cookies with names that are not empty, formatted
\* as the value of a Cookie header, parses back to the same (name, value)
\* pairs in the same order.
C17_CookieRoundTrip ==
    call.fn = "Header::to_string(Cookie)" /\ call.cookies # <<>> =>
        call.parsed.ok /\ call.parsed.cookies = call.cookies

\* C18: for every Header variant to_string is one wire line: name(), ": ",
\* the value text, and "\r\n" at the end and nowhere before it.
C18_OneLinePerHeader ==
    call.fn = "Header::to_string" =>
        /\ StartsWith(call.line, call.name \o <<":"," ">>)
        /\ Find(call.line, <<"\r","\n">>) = Len(call.line) - 1

\* The names the parser matches, in lower case.
ClosedNames ==
    {to_lowercase(TextHeaderNames[k]) : k \in ParsedTextKinds}
        \cup {<<"c","o","n","n","e","c","t","i","o","n">>, <<"c","o","n","t","e","n","t","-","l","e","n","g","t","h">>, <<"c","o","n","t","e","n","t","-","t","y","p","e">>, <<"a","c","c","e","p","t","-","e","n","c","o","d","i","n","g">>, <<"c","a","c","h","e","-","c","o","n","t","r","o","l">>,
              <<"c","o","o","k","i","e">>, <<"p","r","a","g","m","a">>, <<"p","r","o","x","y","-","c","o","n","n","e","c","t","i","o","n">>, <<"d","n","t">>}

\* C19: a header line whose name is not in the closed set is no parse error
\* and is stored as Unknown with the name as received, letter case kept, and
\* the raw value; to_string of it gives that name and value back.
C19_UnknownVerbatim ==
    call.fn = "handle_connection(header)" /\ Contains(call.arg, <<":"," ">>)
        /\ to_lowercase(SubSeq(call.arg, 1, Find(call.arg, <<":"," ">>) - 1)) \notin ClosedNames =>
        /\ call.tag = "Ok"
        /\ call.ret.h.kind = "Unknown"
        /\ call.ret.h.name = SubSeq(call.arg, 1, Find(call.arg, <<":"," ">>) - 1)
        /\ call.ret.h.str = SubSeq(call.arg, Find(call.arg, <<":"," ">>) + 2, Len(call.arg))
        /\ call.line = call.arg \o <<"\r","\n">>

\* C20: the serialized response begins with one status line: the version of
\* the request, a space, the three digits of the status code, a space, the
\* reason phrase and "\r\n"; the version text stands in it once, and the
\* header lines follow it directly.
C20_OneStatusLine ==
    sent.tag = "Some" =>
        \A v \in {Version_to_string(request.req.version)}, first \in {Split(sent.bytes, <<"\r","\n">>)[1]} :
            /\ StartsWith(first, v \o <<" ">>)
            /\ Len(first) >= Len(v) + 5
            /\ \A k \in 1..3 : IsDigit(first[Len(v) + 1 + k])
            /\ first[Len(v) + 5] = " "
            /\ ~Contains(SubSeq(first, Len(v) + 1, Len(first)), <<"H","T","T","P","/">>)
            /\ \A hl \in {HeaderLines(FinalHeaders(sent.response, request.req))} :
                   SubSeq(sent.bytes, Len(first) + 3, Len(first) + 4 + Len(hl)) = hl \o <<"\r","\n">>

\* The numeric code in the text that a named Status variant prints: its
\* first three digits.
PrintedCode(variant) ==
    LET text == Status_to_string([tag |-> variant])
        at == Min({i \in 1..(Len(text) - 2) : \A k \in 0..2 : IsDigit(text[i + k])})
    IN  DigitsValue(SubSeq(text, at, at + 2))

\* C21: Status::from_code of the code that a named variant prints is that
\* variant, and from_code gives Unknown(code) only for a code that no named
\* variant prints.
C21_CodesBothWays ==
    call.fn = "Status::from_code" =>
        /\ \A variant \in DOMAIN StatusText :
               PrintedCode(variant) = call.code => call.ret = [tag |-> variant]
        /\ call.ret.tag = "Unknown" =>
               /\ call.ret.code = call.code
               /\ \A variant \in DOMAIN StatusText : PrintedCode(variant) # call.code

\* The request target of a message: what stands between the first and the
\* second space; and the text of the target after "://".
TargetOf(buffer) == Split(buffer, <<" ">>)[2]
AfterScheme(target) == SubSeq(target, Find(target, <<":","/","/">>) + 3, Len(target))

\* The path and the query of a target's text from its first '/' on: the
\* path is what stands before the first '?', percent-decoded, the query is
\* the rest, parsed.
PathOf(text) ==
    decode(IF Contains(text, <<"?">>) THEN SubSeq(text, 1, Find(text, <<"?">>) - 1) ELSE text).str
QueryOf(text) ==
    IF Contains(text, <<"?">>) /\ SearchParams_parse(SubSeq(text, Find(text, <<"?">>), Len(text))).ok
    THEN SearchParams_parse(SubSeq(text, Find(text, <<"?">>), Len(text))).params
    ELSE SearchParams_empty

\* C22: the Uri of an absolute-form target scheme://host/path?query has that
\* scheme, that host, the whole path after the host, percent-decoded, and
\* the parsed query, whatever the Host header says; the Uri of an
\* origin-form target has the scheme "http" and the value of a Host header
\* as its host.
C22_UriOfTarget ==
    call.fn = "handle_connection" /\ call.tag = "Ok" =>
        \A target \in {TargetOf(call.arg)}, uri \in {call.ret.req.uri} :
            IF Contains(target, <<":","/","/">>)
            THEN \A rest \in {AfterScheme(target)} :
                     /\ uri.scheme = SubSeq(target, 1, Find(target, <<":","/","/">>) - 1)
                     /\ uri.host = IF Contains(rest, <<"/">>) THEN SubSeq(rest, 1, Find(rest, <<"/">>) - 1) ELSE rest
                     /\ Contains(rest, <<"/">>) =>
                            /\ uri.path = PathOf(SubSeq(rest, Find(rest, <<"/">>), Len(rest)))
                            /\ uri.search = QueryOf(SubSeq(rest, Find(rest, <<"/">>), Len(rest)))
            ELSE /\ uri.scheme = <<"h","t","t","p">>
                 /\ \E i \in 1..Len(call.ret.req.headers) :
                        /\ call.ret.req.headers[i].kind = "Host"
                        /\ call.ret.req.headers[i].str = uri.host

\* C23: the body of a parsed Request is the text after the first "\r\n\r\n"
\* of the message, unchanged, also when that text holds "\r\n\r\n" itself.
C23_BodyIsTheRemainder ==
    call.fn = "handle_connection" /\ call.tag = "Ok" =>
        call.ret.req.body = SubSeq(call.arg, Find(call.arg, <<"\r","\n","\r","\n">>) + 4, Len(call.arg))

\* The header lines of a message: what stands between the request line and
\* the first blank line, cut at each "\r\n".
HeaderLinesOf(buffer) ==
    IF Find(buffer, <<"\r","\n","\r","\n">>) = Find(buffer, <<"\r","\n">>) THEN <<>>
    ELSE Split(SubSeq(buffer, Find(buffer, <<"\r","\n">>) + 2, Find(buffer, <<"\r","\n","\r","\n">>) - 1), <<"\r","\n">>)

\* C24: a header line is cut at its first ": " only: a header that keeps
\* its value as text holds the whole remainder of its line, a further ": "
\* in it included.
C24_ValueIsTheRemainder ==
    call.fn = "handle_connection" /\ call.tag = "Ok" =>
        \A lines \in {HeaderLinesOf(call.arg)} :
            /\ Len(call.ret.req.headers) = Len(lines)
            /\ \A i \in 1..Len(lines) :
                   "str" \in DOMAIN call.ret.req.headers[i] =>
                       call.ret.req.headers[i].str =
                           SubSeq(lines[i], Find(lines[i], <<":"," ">>) + 2, Len(lines[i]))

\* C26: a Pragma header with a directive that is not recognized does not
\* fail the request parse: the message is parsed, the lines after the Pragma
\* line among them.
C26_PragmaUnrecognizedIsDropped ==
    call.fn = "handle_connection" =>
        \A lines \in {HeaderLinesOf(call.arg)} :
            (\E i \in 1..Len(lines) : StartsWith(lines[i], <<"P","r","a","g","m","a",":"," ">>)) =>
                /\ call.tag = "Ok"
                /\ \A i \in 1..Len(lines) :
                       ~StartsWith(lines[i], <<"P","r","a","g","m","a",":"," ">>) =>
                           \E j \in 1..Len(call.ret.req.headers) :
                               StartsWith(lines[i], Header_name(call.ret.req.headers[j]) \o <<":"," ">>)

\* C27: a message with no header line, the request line then the blank
\* line, with or without a body, is parsed into a Request with an empty
\* header list; handle_connection does not abort on it.
C27_NoHeaderLines ==
    call.fn = "handle_connection" /\ HeaderLinesOf(call.arg) = <<>> =>
        call.tag = "Ok" /\ call.ret.req.headers = <<>>

\* C25: Cache::parse gives, in the order of the input, the variant of every
\* directive key=N and of every bare token of the fixed sets, so what
\* Cache::format writes for a list of directives parses back to that list.
C25_CacheRoundTrip ==
    call.fn = "Cache::format" => call.parsed = call.vec

\* C28: Mime::parse returns a Mime or an error for every text and does not
\* abort: a text with no '/' is an error, and so is a text whose parameter
\* segment after ';' is empty or has no '=', which makes the request parse
\* return an error for a Content-Type line with that value.
C28_MimeParseIsTotal ==
    call.fn = "Mime::parse" =>
        /\ call.tag \in {"Ok", "Err"}
        /\ ~Contains(call.arg, <<"/">>) => call.tag = "Err"
        /\ (Contains(call.arg, <<";">>) /\ ~Contains(Split(call.arg, <<";">>)[2], <<"=">>)) =>
               call.tag = "Err" /\ call.line.tag = "Err"

\* C29: when the serializer computes the Content-Length header itself and
\* emits a body, the value of the header is the number of body bytes written
\* after the blank line, for a compressed body and for a Text body with
\* characters outside ASCII too.
C29_ComputedLengthCountsBodyBytes ==
    (/\ sent.tag = "Some"
     /\ GivenContentLengths = <<>>
     /\ sent.response.body.tag \in {"Text", "Binary"}
     /\ request.req.method.name # <<"H","E","A","D">> /\ ~Is204(sent.response.status)) =>
        \A body \in {BodyOnWire} : WireContentLengths = <<FormatNat(Len(body))>>

\* C30: when respond has returned Ok(n) the stream has taken the complete
\* serialized response and n is its length; the responded flag is true only
\* on a Request whose response was written whole.
C30_OkMeansAllWritten ==
    /\ (sent.tag = "Some" /\ result.tag = "Ok") =>
           result.n = Len(sent.bytes) /\ wire = sent.bytes
    /\ (request.tag = "Some" /\ request.req.responded) =>
           sent.tag = "Some" /\ wire = sent.bytes
====
